---- MODULE Spec2Model ----
(***************************************************************************)
(* DVT report generator (che2025/DVT_v1).                                  *)
(*                                                                         *)
(* The module holds four specifications over one set of variables:         *)
(*   Spec          the /generate request as served by the process:         *)
(*                 generate_report_sections with the module-level          *)
(*                 generator, requests served one after another;           *)
(*   SpecPipeline  the same request handler where the orchestrator call    *)
(*                 binds, so that the AI branch behind it runs;            *)
(*   SpecParser    DocumentParser.parse_document followed by               *)
(*                 format_for_ai_prompt;                                   *)
(*   SpecStats     the test-article statistics of TestArticleParser and    *)
(*                 TestResultSummaryAgent.                                 *)
(* Text is modelled by what it is made of: a content is a record           *)
(* [kind, of], a joined text is the sequence of its parts.                 *)
(***************************************************************************)
EXTENDS Integers, Sequences, FiniteSets, TLC

VARIABLES
    client,                 \* main.py:32  TRUE iff configure_ai() returned a client
    call_keywords,          \* keywords bound at the orchestrator call site
    generated_attachments,  \* DVTReportGenerator.generated_attachments
    served,                 \* number of /generate requests accepted so far
    pc,                     \* position of the request being served
    req,                    \* inputs of the request being served
    sections,               \* the sections map of generate_report_sections
    ai_results,             \* the map returned by execute_tasks_4_1_to_4_4
    results,                \* TaskResult returned by each agent in this request
    order,                  \* section keys in the order they were written
    complete_report,        \* text handed to execute_final_acronyms_task
    doc,                    \* doc.element.body of the document being parsed
    pos,                    \* index of the next body element of the loop
    parsed_data,            \* DocumentParser.parsed_data
    key_order,              \* insertion order of the keys of parsed_data
    current_section,        \* DocumentParser.current_section
    content_counter,        \* DocumentParser.content_counter
    stop_parsing,           \* DocumentParser.stop_parsing
    parser_pc,              \* position in parse_document / format_for_ai_prompt
    formatted,              \* sections as rendered by format_for_ai_prompt
    records,                \* records of _parse_test_article_sheet, by primary key
    test_result_columns,    \* test_result_columns of _parse_test_article_sheet
    rows_read,              \* data rows of the worksheet read so far
    analysis,               \* result of TestArticleParser._analyze_test_results
    test_article_data,      \* the sheet's rows as _get_excel_statistics sees them
    stats,                  \* result of TestResultSummaryAgent._get_excel_statistics
    stats_pc,               \* position in the statistics computations
    dut_call,               \* which entry of DeviceUnderTestAgent is running
    data_files,             \* data_files handed to task 4.5
    excel_data,             \* the formatted text of the worksheets, by line
    scan_pos,               \* index of the next line of the serial-number scan
    unique_serial_numbers,  \* unique_serial_numbers of the scan
    test_article_count,     \* value returned by _count_test_articles_in_content
    dut_result,             \* TaskResult of create_device_configuration_section
    dut_pc,                 \* position in create_device_configuration_section
    temp_files,             \* temporary files now on disk
    criteria_info,          \* criteria_info of _generate_attribute_table
    excel_stats,            \* excel_stats of _generate_attribute_table
    table_rows,             \* table_rows of _generate_attribute_table
    table_pc,               \* position in _generate_attribute_table
    markdown_table,         \* headers and rows given to _format_word_table
    table_text,             \* table_text of convert_markdown_table_to_word
    table_lines,            \* table_lines[2:] not yet parsed
    data_rows,              \* data_rows of convert_markdown_table_to_word
    word_table,             \* the cell texts of the table added to the document
    convert_pc,             \* position in convert_markdown_table_to_word
    template_exists,        \* check_template_file()["exists"]
    doc_sections,           \* sections given to create_word_document_from_template
    content_mapping,        \* content_mapping of create_word_document_from_template
    doc_paragraphs,         \* doc.paragraphs, the appended ones included
    doc_pos,                \* position of the loop that is running
    placeholders_found,     \* placeholders_found, as a set
    doc_pc,                 \* position in create_word_document_from_template
    protocol_file,          \* protocol_file of process_files
    uploaded_files,         \* data_files of process_files
    file_results,           \* results of process_files
    tmp_files,              \* temporary files written and not removed
    upload_pos,             \* index of the data file in the loop of process_files
    upload_pc,              \* position in process_files
    narrative,              \* which agent post-processes the response
    response_lines,         \* content.split of the response of the capability
    processed_lines,        \* processed_lines of _fix_deviation_numbering
    deviation_counter,      \* deviation_counter / investigation_counter
    numbering_pc,           \* position in the post-processing
    excel_files,            \* data_files of parse_all_excel_files
    excel_pos,              \* index of the file in the loop of parse_all_excel_files
    all_results,            \* all_results of parse_all_excel_files
    parsed_data_of_parser,  \* TestArticleParser.parsed_data
    primary_key,            \* TestArticleParser.primary_key
    last_returned,          \* what parse_excel_file returned for the last file
    combined_pc,            \* position in parse_all_excel_files
    worksheet,              \* the sheet handed to _parse_sheet_to_dict
    sheet_columns,          \* columns
    sheet_data,             \* data
    sheet_row,              \* row of the loop, from 1 for the first data row
    sheet_pc                \* start, rows, returned; idle

pipelineVars == <<client, call_keywords, generated_attachments, served, pc,
                  req, sections, ai_results, results, order, complete_report>>

parserVars == <<doc, pos, parsed_data, key_order, current_section,
                content_counter, stop_parsing, parser_pc, formatted>>

statsVars == <<records, test_result_columns, rows_read, analysis,
               test_article_data, stats, stats_pc>>

dutVars == <<dut_call, data_files, excel_data, scan_pos, unique_serial_numbers,
             test_article_count, dut_result, dut_pc, temp_files>>

tableVars == <<criteria_info, excel_stats, table_rows, table_pc>>

convertVars == <<markdown_table, table_text, table_lines, data_rows, word_table, convert_pc>>

documentVars == <<template_exists, doc_sections, content_mapping, doc_paragraphs, doc_pos, placeholders_found, doc_pc>>

uploadVars == <<protocol_file, uploaded_files, file_results, tmp_files, upload_pos, upload_pc>>

numberingVars == <<narrative, response_lines, processed_lines, deviation_counter, numbering_pc>>

combinedVars == <<excel_files, excel_pos, all_results, parsed_data_of_parser, primary_key, last_returned, combined_pc>>

sheetVars == <<worksheet, sheet_columns, sheet_data, sheet_row, sheet_pc>>

vars == <<pipelineVars, parserVars, statsVars, dutVars, tableVars, convertVars, documentVars, uploadVars, numberingVars, combinedVars, sheetVars>>

-----------------------------------------------------------------------------
(* Bounds *)

MaxRequests == 2
MaxElements == 3
MaxRows == 2
MaxLines == 2
MaxDuts == 12
MaxCriteria == 2
MaxTableRows == 2
MaxMissing == 1
MaxDataFiles == 2
MaxNarrativeLines == 3
MaxNumber == 3
MaxSheetRows == 2
MaxFiles == 2
MaxDataRows == 2

-----------------------------------------------------------------------------
(* Contents and task results *)

Empty == [kind |-> "empty", of |-> ""]
AiText(t) == [kind |-> "ai", of |-> t]
Fallback(t) == [kind |-> "fallback", of |-> t]
Literal(s) == [kind |-> "literal", of |-> s]
ErrorIn(k) == [kind |-> "error", of |-> k]

\* Python truthiness of a str
Truthy(content) == content.kind # "empty"

NoAttachment == [report |-> 0, label |-> "none"]
RawDataAttachment(report) == [report |-> report, label |-> "Attachment - Raw Data.xlsx"]

TaskResult(success, content, error, attachment) ==
    [success |-> success, content |-> content, error |-> error,
     attachment |-> attachment]

NoError == "None"

\* A partial map (dict) as a function; d.get(k, default)
EmptyMap == [k \in {} |-> Empty]
Put(d, k, v) == [x \in (DOMAIN d) \cup {k} |-> IF x = k THEN v ELSE d[x]]
Get(d, k, default) == IF k \in DOMAIN d THEN d[k] ELSE default

-----------------------------------------------------------------------------
(* The generation capability *)

AiCalls == {"connection_test", "task_4_1", "task_4_2", "task_4_4", "task_4_5",
            "task_4_6", "task_4_7", "deviations", "defective", "tml",
            "conclusion", "task_4_3"}

\* What one call of the model returns in the request being served:
\* "text" a non-empty answer, "empty" an empty answer, "fail" an exception.
\* "no deviations" is a non-empty answer of the deviations call that holds
\* the words "no deviations" (ai_agents.py:2009).
\* Without a client BaseDVTAgent.generate_content raises on every call.
Capability(t) ==
    IF ~client THEN "fail"
    ELSE IF req.fault_call = t THEN req.fault_kind
    ELSE "text"

\* BaseDVTAgent.generate_content when it does not raise
Generated(t) == IF Capability(t) = "text" THEN AiText(t) ELSE Empty

-----------------------------------------------------------------------------
(* The agents (ai_agents.py): the TaskResult each returns *)

\* ScopeAndPurposeAgent.create_scope_and_purpose
create_scope_and_purpose ==
    IF Capability("task_4_1") = "fail"
    THEN TaskResult(FALSE, Empty, "exception", NoAttachment)
    ELSE TaskResult(TRUE, Generated("task_4_1"), NoError, NoAttachment)

\* ReferenceAgent.create_reference_section
create_reference_section ==
    IF Capability("task_4_2") = "fail"
    THEN TaskResult(FALSE, Empty, "exception", NoAttachment)
    ELSE TaskResult(TRUE, Generated("task_4_2"), NoError, NoAttachment)

\* TestProcedureSummaryAgent.create_test_procedure_summary
create_test_procedure_summary ==
    IF Capability("task_4_4") = "fail"
    THEN TaskResult(FALSE, Empty, "exception", NoAttachment)
    ELSE TaskResult(TRUE, Generated("task_4_4"), NoError, NoAttachment)

\* AcronymsDefinitionsAgent.create_acronyms_and_definitions
create_acronyms_and_definitions ==
    IF Capability("task_4_3") = "fail"
    THEN TaskResult(TRUE, Fallback("task_4_3"), NoError, NoAttachment)
    ELSE TaskResult(TRUE, Generated("task_4_3"), NoError, NoAttachment)

\* DeviceUnderTestAgent._create_test_article_attachment: the first uploaded
\* file named *.xlsx or *.xls is saved under the report's attachment name.
create_test_article_attachment ==
    IF req.dut \in {"xlsx_le10", "xlsx_gt10"}
    THEN RawDataAttachment(req.report)
    ELSE NoAttachment

\* DeviceUnderTestAgent.create_device_configuration_section
create_device_configuration_section ==
    IF Capability("task_4_5") = "fail"
    THEN TaskResult(FALSE, Fallback("task_4_5"), "exception", NoAttachment)
    ELSE TaskResult(TRUE, Generated("task_4_5"), NoError,
                    IF req.dut = "xlsx_gt10"
                    THEN create_test_article_attachment
                    ELSE NoAttachment)

\* EquipmentUsedAgent._ai_organize_equipment_data: any exception of the call
\* is answered by _fallback_organize_data.
ai_organize_equipment_data ==
    IF Capability("task_4_6") = "fail"
    THEN Fallback("task_4_6")
    ELSE Generated("task_4_6")

\* report_generator.py:975-979: the keys of the item that
\* _prepare_equipment_data_for_agent hands to the agent
PreparedItemKeys == {"equipment_data", "file_name", "source"}

\* EquipmentUsedAgent._create_equipment_attachment: the source file is the
\* "file_path" of the first item of test_data that has one.
create_equipment_attachment ==
    IF "file_path" \in PreparedItemKeys
    THEN RawDataAttachment(req.report)
    ELSE NoAttachment

\* line 861: more than 5 items in a category
LogAttachmentThreshold == 5

\* lines 849-851: rows of the equipment, software and material logs of the
\* request
LogCounts ==
    CASE req.equipment = "none" -> [equipment |-> 0, software |-> 0, material |-> 0]
      [] req.equipment = "le5" ->
            [equipment |-> LogAttachmentThreshold, software |-> 1, material |-> 0]
      [] OTHER ->
            [equipment |-> 1, software |-> LogAttachmentThreshold + 1, material |-> 0]

\* line 861
needs_attachment ==
    \/ LogCounts.equipment > LogAttachmentThreshold
    \/ LogCounts.software > LogAttachmentThreshold
    \/ LogCounts.material > LogAttachmentThreshold

\* EquipmentUsedAgent.process
equipment_process ==
    IF LogCounts.equipment + LogCounts.software + LogCounts.material = 0
    THEN TaskResult(TRUE, Literal("No equipment, software, or material log data was found in the uploaded files."),
                    NoError, NoAttachment)
    ELSE TaskResult(TRUE, ai_organize_equipment_data, NoError,
                    IF needs_attachment
                    THEN create_equipment_attachment
                    ELSE NoAttachment)

\* TestResultSummaryAgent.create_test_result_summary: when the criteria
\* extraction fails or finds nothing the default table is returned.
agent_create_test_result_summary ==
    IF Capability("task_4_7") = "text"
    THEN TaskResult(TRUE, AiText("task_4_7"), NoError, NoAttachment)
    ELSE TaskResult(TRUE, Fallback("task_4_7"), NoError, NoAttachment)

\* ProtocolDeviationsAgent.process_deviations, called with deviation rows
process_deviations ==
    CASE Capability("deviations") = "fail" ->
            TaskResult(FALSE, Literal("No deviations."), "exception", NoAttachment)
      [] Capability("deviations") = "no deviations" ->
            TaskResult(TRUE, Literal("No deviations."), NoError, NoAttachment)
      [] Capability("deviations") = "empty" ->
            TaskResult(FALSE, Literal("No deviations."),
                       "Failed to generate deviation content", NoAttachment)
      [] OTHER ->
            TaskResult(TRUE, AiText("deviations"), NoError, NoAttachment)

\* DefectiveUnitInvestigationsAgent.process_defective_units, called with rows
process_defective_units ==
    CASE Capability("defective") = "fail" ->
            TaskResult(FALSE, Literal("No defective unit in the execution of this test."),
                       "exception", NoAttachment)
      [] Capability("defective") = "empty" ->
            TaskResult(FALSE, Literal("No defective unit in the execution of this test."),
                       "Failed to generate defective unit content", NoAttachment)
      [] OTHER ->
            TaskResult(TRUE, AiText("defective"), NoError, NoAttachment)

NoLossesContent == Literal("No test method loss occurred in the execution of this test.")

\* TestMethodLossAgent._generate_ai_content
generate_ai_content ==
    IF Capability("tml") = "text" THEN AiText("tml") ELSE NoLossesContent

\* TestMethodLossAgent.create_test_method_loss_investigations
agent_create_test_method_loss_investigations ==
    IF req.tml = "none"
    THEN TaskResult(TRUE, NoLossesContent, NoError, NoAttachment)
    ELSE TaskResult(TRUE, generate_ai_content, NoError, NoAttachment)

\* ConclusionAgent.generate_conclusion
generate_conclusion(test_results_content, scope_content) ==
    IF ~Truthy(test_results_content) \/ ~Truthy(scope_content)
    THEN TaskResult(FALSE, Empty, "Missing test results or scope content", NoAttachment)
    ELSE CASE Capability("conclusion") = "fail" ->
                 TaskResult(FALSE, Empty, "exception", NoAttachment)
           [] Capability("conclusion") = "empty" ->
                 TaskResult(FALSE, Empty, "AI failed to generate conclusion content",
                            NoAttachment)
           [] OTHER ->
                 TaskResult(TRUE, AiText("conclusion"), "", NoAttachment)

-----------------------------------------------------------------------------
(* The orchestrator (ai_agents.py, DVTAgentOrchestrator) *)

\* Parameters execute_tasks_4_1_to_4_4 declares (it takes no **kwargs)
OrchestratorParams == {"protocol_content", "protocol_number", "project_name",
                       "report_content"}

\* Keywords passed at report_generator.py:471-477
GeneratorCallKeywords == {"protocol_content", "protocol_number", "project_name",
                          "report_content", "parsed_protocol_data"}

\* Python binds a keyword call only when every keyword names a parameter;
\* otherwise the call raises TypeError before the body runs.
Binds(keywords, params) == keywords \subseteq params

PendingAcronyms ==
    TaskResult(TRUE, Literal("Task 4.3 will be executed after complete report is generated"),
               NoError, NoAttachment)

\* The body of execute_tasks_4_1_to_4_4 called with report_content = ""
execute_tasks_4_1_to_4_4 ==
    [k \in {"task_4_1", "task_4_2", "task_4_4", "task_4_3"} |->
        CASE k = "task_4_1" -> create_scope_and_purpose
          [] k = "task_4_2" -> create_reference_section
          [] k = "task_4_4" -> create_test_procedure_summary
          [] OTHER -> PendingAcronyms]

\* DVTAgentOrchestrator.test_ai_connection (exceptions are caught)
test_ai_connection ==
    IF Capability("connection_test") = "fail"
    THEN Literal("AI test failed")
    ELSE Literal("AI test answered")

-----------------------------------------------------------------------------
(* DVTReportGenerator (report_generator.py) *)

\* test_gemini_connection
test_gemini_connection ==
    IF client THEN test_ai_connection ELSE Literal("AI client not configured")

\* The statement pattern of lines 505-536: sections[k] from ai_results[k]
FromAiResults(k) ==
    IF k \in DOMAIN ai_results /\ ai_results[k].success
    THEN ai_results[k].content
    ELSE ErrorIn(k)

\* _build_complete_report_text: the parts joined by blank lines
ReportKeys == <<"task_4_1", "task_4_2", "task_4_4", "dut_config", "equipment",
                "task_4_7", "test_details", "protocol_deviations",
                "defective_unit_investigations", "defective_units",
                "test_method_losses", "conclusion">>

PresentKeys(keys, s) == SelectSeq(keys, LAMBDA k : k \in DOMAIN s)

build_complete_report_text(keys, s) ==
    [i \in 1..Len(PresentKeys(keys, s)) |-> s[PresentKeys(keys, s)[i]]]

\* create_test_result_summary
create_test_result_summary ==
    IF ~client
    THEN Fallback("task_4_7")
    ELSE IF agent_create_test_result_summary.success
         THEN agent_create_test_result_summary.content
         ELSE ErrorIn("task_4_7")

\* create_protocol_deviations_from_excel
create_protocol_deviations_from_excel ==
    IF req.deviations = "none" THEN Literal("No deviations.")
    ELSE IF client
         THEN IF process_deviations.success
              THEN process_deviations.content
              ELSE Literal("No deviations.")
         ELSE Literal("No deviations.")

\* create_defective_unit_investigations_from_excel
create_defective_unit_investigations_from_excel ==
    IF req.defective = "none"
    THEN Literal("No defective unit investigations available.")
    ELSE IF client
         THEN IF process_defective_units.success
              THEN process_defective_units.content
              ELSE Literal("No defective unit investigations available.")
         ELSE Literal("No defective unit investigations available.")

\* create_test_method_loss_investigations
create_test_method_loss_investigations ==
    IF agent_create_test_method_loss_investigations.success
    THEN agent_create_test_method_loss_investigations.content
    ELSE NoLossesContent

\* create_conclusion: the inputs it reads and the content it returns
ConclusionScopeKey == "task_4_1"
ConclusionResultsKey == "task_4_7"

create_conclusion(s) ==
    LET test_results_content == Get(s, ConclusionResultsKey, Empty)
        scope_content == Get(s, ConclusionScopeKey, Empty)
    IN  IF ~Truthy(test_results_content) \/ ~Truthy(scope_content)
        THEN Fallback("conclusion")
        ELSE IF client
             THEN IF generate_conclusion(test_results_content, scope_content).success
                  THEN generate_conclusion(test_results_content, scope_content).content
                  ELSE Fallback("conclusion")
             ELSE Fallback("conclusion")

\* TRUE iff create_conclusion hands its two inputs to the ConclusionAgent
ConclusionAgentCalled(s) ==
    /\ Truthy(Get(s, ConclusionResultsKey, Empty))
    /\ Truthy(Get(s, ConclusionScopeKey, Empty))
    /\ client

\* _create_attachments_list: one numbered line per tracked filename
create_attachments_list(attachments) ==
    [i \in 1..Len(attachments) |-> [index |-> i, filename |-> attachments[i]]]

-----------------------------------------------------------------------------
(* The requests *)

Duts == {"none", "xlsx_le10", "xlsx_gt10"}
EquipmentLogs == {"none", "le5", "gt5"}
Sheets == {"none", "rows"}
\* the deviations sheet: absent, present with no data row, present with rows
DeviationSheets == {"none", "empty", "rows"}
FaultKinds == {"empty", "fail"}

NoFault == [fault_call |-> "none", fault_kind |-> "fail"]

Faults ==
    IF client
    THEN {NoFault} \cup [fault_call : AiCalls, fault_kind : FaultKinds]
         \cup {[fault_call |-> "deviations", fault_kind |-> "no deviations"]}
    ELSE {NoFault}

RequestInputs(n) ==
    {[report |-> n, dut |-> d, equipment |-> e, deviations |-> dv,
      defective |-> df, tml |-> t,
      fault_call |-> f.fault_call, fault_kind |-> f.fault_kind] :
        d \in Duts, e \in EquipmentLogs, dv \in DeviationSheets, df \in Sheets,
        t \in Sheets, f \in Faults}

NoRequest == [report |-> 0, dut |-> "none", equipment |-> "none",
              deviations |-> "none", defective |-> "none", tml |-> "none",
              fault_call |-> "none", fault_kind |-> "fail"]

NoResults == [k \in {} |-> PendingAcronyms]
NotBuilt == [built |-> FALSE, parts |-> <<>>]

-----------------------------------------------------------------------------
(* The /generate handler, one action per statement of                      *)
(* generate_report_sections                                                *)

process == <<client, call_keywords, parserVars, statsVars, dutVars, tableVars, convertVars, documentVars, uploadVars, numberingVars, combinedVars, sheetVars>>

\* sections[k] = c
Write(k, c) ==
    /\ sections' = Put(sections, k, c)
    /\ order' = Append(order, k)

\* main.py:40-116 a request is accepted; sections = {} (line 439)
NewRequest ==
    /\ pc = "idle"
    /\ served < MaxRequests
    /\ served' = served + 1
    /\ \E r \in RequestInputs(served + 1) : req' = r
    /\ pc' = "start"
    /\ sections' = EmptyMap
    /\ ai_results' = NoResults
    /\ results' = NoResults
    /\ order' = <<>>
    /\ complete_report' = NotBuilt
    /\ UNCHANGED <<process, generated_attachments>>

\* lines 441-452: image paths, connection test, choice of the branch
TestConnection ==
    /\ pc = "start"
    /\ sections' = Put(Put(sections, "analysis_image_paths", Literal("paths")),
                       "gemini_test", test_gemini_connection)
    /\ order' = order \o <<"analysis_image_paths", "gemini_test">>
    /\ pc' = IF client THEN "execute_tasks_4_1_to_4_4" ELSE "fallback_task_4_1"
    /\ UNCHANGED <<process, generated_attachments, served, req, ai_results,
                   results, complete_report>>

\* lines 471-477: the orchestrator call.  A call that does not bind raises
\* TypeError out of generate_report_sections.
ExecuteTasks4_1To4_4 ==
    /\ pc = "execute_tasks_4_1_to_4_4"
    /\ IF Binds(call_keywords, OrchestratorParams)
       THEN /\ ai_results' = execute_tasks_4_1_to_4_4
            /\ results' = [k \in {"task_4_1", "task_4_2", "task_4_4"} |->
                                execute_tasks_4_1_to_4_4[k]]
            /\ pc' = "task_4_5"
       ELSE /\ pc' = "raised"
            /\ UNCHANGED <<ai_results, results>>
    /\ UNCHANGED <<process, generated_attachments, served, req, sections,
                   order, complete_report>>

\* lines 479-501: task 4.5 (device_config is always a non-empty dict)
ExecuteTask4_5 ==
    /\ pc = "task_4_5"
    /\ LET task_4_5_result == create_device_configuration_section
       IN  /\ results' = Put(results, "task_4_5", task_4_5_result)
           /\ IF task_4_5_result.success
              THEN /\ Write("task_4_5", task_4_5_result.content)
                   /\ generated_attachments' =
                        IF task_4_5_result.attachment # NoAttachment
                        THEN Append(generated_attachments,
                                    task_4_5_result.attachment)
                        ELSE generated_attachments
              ELSE /\ Write("task_4_5", ErrorIn("task_4_5"))
                   /\ UNCHANGED generated_attachments
    /\ pc' = "process_ai_results"
    /\ UNCHANGED <<process, served, req, ai_results, complete_report>>

\* lines 503-536
ProcessAiResults ==
    /\ pc = "process_ai_results"
    /\ sections' =
         Put(Put(Put(Put(sections,
             "task_4_1_purpose", FromAiResults("task_4_1_purpose")),
             "task_4_1_scope", FromAiResults("task_4_1_scope")),
             "task_4_2", FromAiResults("task_4_2")),
             "task_4_4", FromAiResults("task_4_4"))
    /\ order' = order \o <<"task_4_1_purpose", "task_4_1_scope", "task_4_2",
                           "task_4_4">>
    /\ pc' = "chronology"
    /\ UNCHANGED <<process, generated_attachments, served, req, ai_results,
                   results, complete_report>>

\* lines 540-564
ChronologyAndImages ==
    /\ pc = "chronology"
    /\ sections' = Put(Put(sections,
             "test_execution_chronology", Literal("chronology table")),
             "test_result_analysis_images", Literal("analysis images"))
    /\ order' = order \o <<"test_execution_chronology",
                           "test_result_analysis_images">>
    /\ pc' = "task_4_6"
    /\ UNCHANGED <<process, generated_attachments, served, req, ai_results,
                   results, complete_report>>

\* create_equipment_section: the content it returns; the attachments of a
\* successful result are appended to generated_attachments
create_equipment_section ==
    IF equipment_process.success
    THEN equipment_process.content
    ELSE Fallback("equipment")

EquipmentAttachments ==
    IF equipment_process.success /\ equipment_process.attachment # NoAttachment
    THEN Append(generated_attachments, equipment_process.attachment)
    ELSE generated_attachments

\* lines 566-580
EquipmentSection ==
    /\ pc = "task_4_6"
    /\ results' = Put(results, "task_4_6", equipment_process)
    /\ generated_attachments' = EquipmentAttachments
    /\ sections' = Put(Put(sections, "task_4_6", create_equipment_section),
                       "material_equipment", Literal("material and equipment"))
    /\ order' = order \o <<"task_4_6", "material_equipment">>
    /\ pc' = "task_4_7"
    /\ UNCHANGED <<process, served, req, ai_results, complete_report>>

\* line 616
FallbackScopeAndPurpose ==
    /\ pc = "fallback_task_4_1"
    /\ Write("task_4_1", Fallback("task_4_1"))
    /\ pc' = "fallback_task_4_2"
    /\ UNCHANGED <<process, generated_attachments, served, req, ai_results,
                   results, complete_report>>

\* line 620
FallbackReferences ==
    /\ pc = "fallback_task_4_2"
    /\ Write("task_4_2", Fallback("task_4_2"))
    /\ pc' = "fallback_task_4_3"
    /\ UNCHANGED <<process, generated_attachments, served, req, ai_results,
                   results, complete_report>>

\* line 621
FallbackAcronyms ==
    /\ pc = "fallback_task_4_3"
    /\ Write("task_4_3", Fallback("task_4_3"))
    /\ pc' = "fallback_task_4_4"
    /\ UNCHANGED <<process, generated_attachments, served, req, ai_results,
                   results, complete_report>>

\* line 622
FallbackProcedureSummary ==
    /\ pc = "fallback_task_4_4"
    /\ Write("task_4_4", Fallback("task_4_4"))
    /\ pc' = "fallback_dut_config"
    /\ UNCHANGED <<process, generated_attachments, served, req, ai_results,
                   results, complete_report>>

\* line 625
FallbackDutConfiguration ==
    /\ pc = "fallback_dut_config"
    /\ Write("dut_config", Fallback("dut_config"))
    /\ pc' = "fallback_equipment"
    /\ UNCHANGED <<process, generated_attachments, served, req, ai_results,
                   results, complete_report>>

\* lines 626-630
FallbackEquipment ==
    /\ pc = "fallback_equipment"
    /\ results' = Put(results, "task_4_6", equipment_process)
    /\ generated_attachments' = EquipmentAttachments
    /\ Write("equipment", create_equipment_section)
    /\ pc' = "task_4_7"
    /\ UNCHANGED <<process, served, req, ai_results, complete_report>>

\* line 582 / line 631
TestResultSummary ==
    /\ pc = "task_4_7"
    /\ results' = IF client
                  THEN Put(results, "task_4_7", agent_create_test_result_summary)
                  ELSE results
    /\ Write("task_4_7", create_test_result_summary)
    /\ pc' = "test_details"
    /\ UNCHANGED <<process, generated_attachments, served, req, ai_results,
                   complete_report>>

\* line 583 / line 632
TestResultsDetails ==
    /\ pc = "test_details"
    /\ Write("test_details", Literal("test results details"))
    /\ pc' = "protocol_deviations"
    /\ UNCHANGED <<process, generated_attachments, served, req, ai_results,
                   results, complete_report>>

\* line 585 / line 634
ProtocolDeviations ==
    /\ pc = "protocol_deviations"
    /\ results' = IF client /\ req.deviations # "none"
                  THEN Put(results, "deviations", process_deviations)
                  ELSE results
    /\ Write("protocol_deviations", create_protocol_deviations_from_excel)
    /\ pc' = "defective_unit_investigations"
    /\ UNCHANGED <<process, generated_attachments, served, req, ai_results,
                   complete_report>>

\* line 587 / line 636
DefectiveUnitInvestigations ==
    /\ pc = "defective_unit_investigations"
    /\ results' = IF client /\ req.defective # "none"
                  THEN Put(results, "defective", process_defective_units)
                  ELSE results
    /\ Write("defective_unit_investigations",
             create_defective_unit_investigations_from_excel)
    /\ pc' = "defective_units"
    /\ UNCHANGED <<process, generated_attachments, served, req, ai_results,
                   complete_report>>

\* lines 588-590 / lines 637-639
DefectiveUnits ==
    /\ pc = "defective_units"
    /\ Write("defective_units", Literal("defective unit investigations by ticket"))
    /\ pc' = "test_method_losses"
    /\ UNCHANGED <<process, generated_attachments, served, req, ai_results,
                   results, complete_report>>

\* lines 591-598 / lines 640-647
TestMethodLosses ==
    /\ pc = "test_method_losses"
    /\ results' = Put(results, "tml", agent_create_test_method_loss_investigations)
    /\ Write("test_method_losses", create_test_method_loss_investigations)
    /\ pc' = "conclusion"
    /\ UNCHANGED <<process, generated_attachments, served, req, ai_results,
                   complete_report>>

\* line 599 / line 648
Conclusion ==
    /\ pc = "conclusion"
    /\ results' =
         IF ConclusionAgentCalled(sections)
         THEN Put(results, "conclusion",
                  generate_conclusion(Get(sections, ConclusionResultsKey, Empty),
                                      Get(sections, ConclusionScopeKey, Empty)))
         ELSE results
    /\ Write("conclusion", create_conclusion(sections))
    /\ pc' = IF client THEN "final_acronyms" ELSE "attachments"
    /\ UNCHANGED <<process, generated_attachments, served, req, ai_results,
                   complete_report>>

\* lines 601-611
FinalAcronymsTask ==
    /\ pc = "final_acronyms"
    /\ complete_report' =
         [built |-> TRUE, parts |-> build_complete_report_text(ReportKeys, sections)]
    /\ LET final_acronyms_result == create_acronyms_and_definitions
       IN  /\ results' = Put(results, "task_4_3", final_acronyms_result)
           /\ Write("task_4_3", IF final_acronyms_result.success
                                THEN final_acronyms_result.content
                                ELSE ErrorIn("task_4_3"))
    /\ pc' = "attachments"
    /\ UNCHANGED <<process, generated_attachments, served, req, ai_results>>

\* lines 650-653: the attachments list, then the sections map is returned
AttachmentsList ==
    /\ pc = "attachments"
    /\ Write("attachments",
             IF generated_attachments = <<>>
             THEN [kind |-> "literal",
                   of |-> "No attachments included with this report.",
                   lines |-> <<>>]
             ELSE [kind |-> "list", of |-> "attachments",
                   lines |-> create_attachments_list(generated_attachments)])
    /\ pc' = "done"
    /\ UNCHANGED <<process, generated_attachments, served, req, ai_results,
                   results, complete_report>>

\* main.py:118-137: the response is sent (the page, or HTTP 500 when
\* generate_report_sections raised); the generator object lives on.
Respond ==
    /\ pc \in {"done", "raised"}
    /\ pc' = "idle"
    /\ req' = NoRequest
    /\ sections' = EmptyMap
    /\ ai_results' = NoResults
    /\ results' = NoResults
    /\ order' = <<>>
    /\ complete_report' = NotBuilt
    /\ UNCHANGED <<process, generated_attachments, served>>

-----------------------------------------------------------------------------
(* DocumentParser (doc_parsers.py) *)

\* A section number "M.N" is the pair of its digit strings.
Sec(major, minor) == <<major, minor>>
NoSection == <<>>

\* int(): the value of a digit string
RECURSIVE ToInt(_)
ToInt(digits) ==
    IF digits = <<>> THEN 0
    ELSE 10 * ToInt(SubSeq(digits, 1, Len(digits) - 1)) + digits[Len(digits)]

\* str(): the digit string of a natural number
RECURSIVE Digits(_)
Digits(n) == IF n < 10 THEN <<n>> ELSE Append(Digits(n \div 10), n % 10)

\* The text of a paragraph, by the properties the parser tests:
\*   num       the "M.N" the text begins with (NoSection when it has none)
\*   starts    the stripped lower-case text is an appendices word, or begins
\*             with one followed by ' ' or ':'
\*   contains  an appendices word occurs in the lower-case text
\*   title     index of the canonical section title the text contains (0: none)
\*   len       len(text.strip())
Text(num, starts, contains, title, len) ==
    [tag |-> "p", num |-> num, starts |-> starts, contains |-> contains,
     title |-> title, len |-> len]

Purpose10 == Text(Sec(<<1>>, <<0>>), FALSE, FALSE, 1, 11)      \* "1.0 PURPOSE"
Sub11 == Text(Sec(<<1>>, <<1>>), FALSE, FALSE, 0, 30)          \* "1.1 <text>"
Sub12 == Text(Sec(<<1>>, <<2>>), FALSE, FALSE, 0, 30)          \* "1.2 <text>"
Sub110 == Text(Sec(<<1>>, <<1, 0>>), FALSE, FALSE, 0, 30)      \* "1.10 <text>"
Scope20 == Text(Sec(<<2>>, <<0>>), FALSE, FALSE, 2, 9)         \* "2.0 SCOPE"
Sub21 == Text(Sec(<<2>>, <<1>>), FALSE, FALSE, 0, 30)          \* "2.1 <text>"
Main100 == Text(Sec(<<1, 0>>, <<0>>), FALSE, FALSE, 0, 30)     \* "10.0 <title>"
Appendices90 == Text(Sec(<<9>>, <<0>>), FALSE, TRUE, 0, 14)    \* "9.0 APPENDICES"
AppendixLine == Text(NoSection, TRUE, TRUE, 0, 10)             \* "Appendix A"
LongMention == Text(NoSection, FALSE, TRUE, 0, 60)   \* a sentence naming an appendix
ScopeTitle == Text(NoSection, FALSE, FALSE, 2, 5)              \* "Scope"
Plain == Text(NoSection, FALSE, FALSE, 0, 20)                  \* ordinary text
Blank == Text(NoSection, FALSE, FALSE, 0, 0)                   \* empty paragraph
TableElement == [tag |-> "tbl"]

Elements == {Purpose10, Sub12, Sub110, Scope20, Main100, Appendices90,
             AppendixLine, LongMention, ScopeTitle, Plain, Blank, TableElement}

\* Scenario A of the specification
ScenarioA == <<Purpose10, Sub11, Scope20, Sub21, Appendices90, Plain>>

RECURSIVE SeqsUpTo(_, _)
SeqsUpTo(S, n) ==
    IF n = 0 THEN {<<>>}
    ELSE SeqsUpTo(S, n - 1) \cup
         {Append(q, e) : q \in {x \in SeqsUpTo(S, n - 1) : Len(x) = n - 1}, e \in S}

Documents == SeqsUpTo(Elements, MaxElements) \cup {ScenarioA}

\* _should_stop_parsing
should_stop_parsing(text) ==
    \/ text.starts
    \/ text.contains /\ text.len < 50

\* _get_section_index for a text holding a canonical title
get_section_index(text) == text.title

\* _extract_section_number: the section number, or NoSection for None
extract_section_number(text) ==
    IF text.num # NoSection THEN text.num
    ELSE IF text.len < 100 /\ text.title # 0
         THEN Sec(Digits(get_section_index(text)), <<0>>)
         ELSE NoSection

\* _is_main_section: section_num.endswith('.0')
is_main_section(section_num) == section_num[2] = <<0>>

\* parsed_data[k] = v, keeping the dict's insertion order
SetKey(order_, k) == IF \E i \in 1..Len(order_) : order_[i] = k
                     THEN order_ ELSE Append(order_, k)

\* Section values: a str (sub-section heading text), or a dict with an
\* optional "title" and the entries content_N (items[N]).
StrSection(text) == [type |-> "str", text |-> text]
MainSection(text) == [type |-> "dict", has_title |-> TRUE, title |-> text,
                      items |-> EmptyMap]

\* _add_content_to_section: the new section value and the new counter
add_content_section(section, counter, content) ==
    LET base == IF section.type = "str"
                THEN [type |-> "dict", has_title |-> FALSE, title |-> Blank,
                      items |-> Put(EmptyMap, 1, section.text)]
                ELSE section
        n == (IF section.type = "str" THEN 1 ELSE counter) + 1
    IN  [base EXCEPT !.items = Put(base.items, n, content)]

\* A counter that goes on from its value at the heading, the heading text of
\* a sub-section not counted (the variant line 239 is compared with)
counter_without_heading(section, counter) == counter + 1

\* lines 235-248: content_counter[section_num] after the content is added
add_content_counter(section, counter) ==
    (IF section.type = "str" THEN 1 ELSE counter) + 1

\* A loop that never tests the flag (the variant the break is compared with)
NeverBreak == FALSE

\* line 50: the loop leaves when the flag is set
BreakLoop == stop_parsing

\* _process_paragraph
ProcessParagraph(text) ==
    IF text.len = 0
    THEN UNCHANGED <<parsed_data, key_order, current_section, content_counter,
                     stop_parsing>>
    ELSE IF should_stop_parsing(text)
    THEN /\ stop_parsing' = TRUE
         /\ UNCHANGED <<parsed_data, key_order, current_section, content_counter>>
    ELSE IF extract_section_number(text) # NoSection
    THEN LET section_num == extract_section_number(text)
         IN  /\ current_section' = section_num
             /\ parsed_data' = Put(parsed_data, section_num,
                                   IF is_main_section(section_num)
                                   THEN MainSection(text)
                                   ELSE StrSection(text))
             /\ key_order' = SetKey(key_order, section_num)
             /\ content_counter' = Put(content_counter, section_num, 0)
             /\ UNCHANGED stop_parsing
    ELSE IF current_section # NoSection
    THEN /\ parsed_data' = Put(parsed_data, current_section,
                add_content_section(parsed_data[current_section],
                                    content_counter[current_section], text))
         /\ content_counter' = Put(content_counter, current_section,
                add_content_counter(parsed_data[current_section],
                                    content_counter[current_section]))
         /\ UNCHANGED <<key_order, current_section, stop_parsing>>
    ELSE UNCHANGED <<parsed_data, key_order, current_section, content_counter,
                     stop_parsing>>

\* _process_table
ProcessTable(table) ==
    IF current_section = NoSection
    THEN UNCHANGED <<parsed_data, key_order, current_section, content_counter,
                     stop_parsing>>
    ELSE /\ parsed_data' = Put(parsed_data, current_section,
                add_content_section(parsed_data[current_section],
                                    content_counter[current_section],
                                    [type |-> "table", data |-> table]))
         /\ content_counter' = Put(content_counter, current_section,
                add_content_counter(parsed_data[current_section],
                                    content_counter[current_section]))
         /\ UNCHANGED <<key_order, current_section, stop_parsing>>

\* Python's comparison of two tuples of integers: a < b
RECURSIVE TupleLess(_, _)
TupleLess(a, b) ==
    IF a = <<>> THEN b # <<>>
    ELSE IF b = <<>> THEN FALSE
    ELSE IF a[1] # b[1] THEN a[1] < b[1]
    ELSE TupleLess(Tail(a), Tail(b))

\* The key of a lexical sort: the characters of "M.N", '.' below the digits
lexical_section_key(section_num) == section_num[1] \o <<-1>> \o section_num[2]

\* _sort_section_key: (int(parts[0]), int(parts[1]))
sort_section_key(section_num) == <<ToInt(section_num[1]), ToInt(section_num[2])>>

\* sorted(keys, key=_sort_section_key): stable, by insertion
InsertByKey(sorted_, k) ==
    LET n == Cardinality({i \in 1..Len(sorted_) :
                  ~TupleLess(sort_section_key(k), sort_section_key(sorted_[i]))})
    IN  SubSeq(sorted_, 1, n) \o <<k>> \o SubSeq(sorted_, n + 1, Len(sorted_))

RECURSIVE SortedKeys(_)
SortedKeys(keys) ==
    IF keys = <<>> THEN <<>>
    ELSE InsertByKey(SortedKeys(SubSeq(keys, 1, Len(keys) - 1)), keys[Len(keys)])

\* content items sorted by the N of content_N
ItemsInOrder(items) ==
    [i \in 1..Cardinality(DOMAIN items) |->
        items[CHOOSE n \in DOMAIN items :
                 Cardinality({m \in DOMAIN items : m <= n}) = i]]

\* format_for_ai_prompt: one rendered block per section, in sorted order
format_for_ai_prompt(data, keys) ==
    [i \in 1..Len(SortedKeys(keys)) |->
        LET section_num == SortedKeys(keys)[i]
            section_data == data[section_num]
        IN  IF section_data.type = "str"
            THEN [section_num |-> section_num, heading |-> section_data.text,
                  items |-> <<>>]
            ELSE [section_num |-> section_num,
                  heading |-> IF section_data.has_title
                              THEN section_data.title ELSE Blank,
                  items |-> ItemsInOrder(section_data.items)]]

notParser == <<pipelineVars, statsVars, dutVars, tableVars, convertVars, documentVars, uploadVars, numberingVars, combinedVars, sheetVars>>

\* parse_document lines 48-59: one iteration of the loop over the body
ProcessElement ==
    /\ parser_pc = "loop"
    /\ pos <= Len(doc)
    /\ ~BreakLoop
    /\ IF doc[pos].tag = "p"
       THEN ProcessParagraph(doc[pos])
       ELSE ProcessTable(doc[pos])
    /\ pos' = pos + 1
    /\ UNCHANGED <<doc, parser_pc, formatted>>
    /\ UNCHANGED notParser

\* parse_document lines 50-52 and 61: the loop ends, parsed_data is returned
ReturnParsedData ==
    /\ parser_pc = "loop"
    /\ pos > Len(doc) \/ BreakLoop
    /\ parser_pc' = "returned"
    /\ UNCHANGED <<doc, pos, parsed_data, key_order, current_section,
                   content_counter, stop_parsing, formatted>>
    /\ UNCHANGED notParser

\* format_for_ai_prompt on the parsed data
FormatForAiPrompt ==
    /\ parser_pc = "returned"
    /\ formatted' = format_for_ai_prompt(parsed_data, key_order)
    /\ parser_pc' = "formatted"
    /\ UNCHANGED <<doc, pos, parsed_data, key_order, current_section,
                   content_counter, stop_parsing>>
    /\ UNCHANGED notParser

\* parse_document lines 42-45: the parser's state when the loop starts
ParserStart(d) ==
    /\ doc = d
    /\ pos = 1
    /\ parsed_data = EmptyMap
    /\ key_order = <<>>
    /\ current_section = NoSection
    /\ content_counter = EmptyMap
    /\ stop_parsing = FALSE
    /\ parser_pc = "loop"
    /\ formatted = <<>>

-----------------------------------------------------------------------------
(* Test-article statistics (excel_parsers.py, ai_agents.py) *)

notStats == <<pipelineVars, parserVars, dutVars, tableVars, convertVars, documentVars, uploadVars, numberingVars, combinedVars, sheetVars>>

Cells == {"", "PASS", "FAIL", "TML", "tml", "N/A", "TML - fixture slip"}
SerialNumbers == {"SN1", "SN2"}
Headers == {<<>>, <<"Test Result 1">>, <<"Test Result 1", "Test Result 2">>}

\* str.upper() on the cell values above
Upper(v) ==
    CASE v = "tml" -> "TML"
      [] v = "TML - fixture slip" -> "TML - FIXTURE SLIP"
      [] OTHER -> v

Range(f) == {f[i] : i \in DOMAIN f}

\* the (record, column) pairs whose upper-cased test result is one of values
ResultsWhere(recs, cols, values) ==
    {<<k, i>> \in (DOMAIN recs) \X (1..Len(cols)) :
        Upper(recs[k][cols[i]]) \in values}

\* line 686
IsTml == {"TML", "TEST METHOD LOSS"}

\* line 678: a result that is not the empty string
NonEmpty == {Upper(v) : v \in Cells} \ {""}

\* lines 674-691: units with at least one non-empty test result, the value
\* actual_sample_size holds before line 694 overwrites it
units_with_test_data(recs, cols, losses) ==
    Cardinality({k \in DOMAIN recs : \E i \in 1..Len(cols) : Upper(recs[k][cols[i]]) # ""})

\* line 694
actual_sample_size(recs, cols, losses) == Cardinality(DOMAIN recs) - losses

\* _analyze_test_results
analyze_test_results(recs, cols) ==
    IF cols = <<>>
    THEN [message |-> "No test result columns found"]
    ELSE LET losses == Cardinality(ResultsWhere(recs, cols, IsTml))
         IN  [test_method_losses |-> losses,
              total_tests_performed |->
                  Cardinality(ResultsWhere(recs, cols, NonEmpty)),
              pass_count |-> Cardinality(ResultsWhere(recs, cols, {"PASS"})),
              fail_count |-> Cardinality(ResultsWhere(recs, cols, {"FAIL"})),
              tml_count |-> losses,
              actual_sample_size |-> actual_sample_size(recs, cols, losses)]

\* The 6th cell of a sheet row as _get_excel_statistics reads it; "short" is
\* a row of at most five cells.
SheetCells == {"short", "PASS", "FAIL", "TML", "FAILED - TML"}

ContainsTml(v) == v \in {"TML", "FAILED - TML"}
ContainsFail(v) == v \in {"FAIL", "FAILED - TML"}

\* Statistics that test a row for FAIL whether or not it holds TML (the
\* variant the elif of line 1778 is compared with)
statistics_counting_both(data) ==
    LET rows == IF data = <<>> THEN <<>> ELSE Tail(data)
        initial == IF data = <<>> THEN 0 ELSE Len(data) - 1
        tml == Cardinality({i \in 1..Len(rows) :
                               rows[i] # "short" /\ ContainsTml(Upper(rows[i]))})
        fail == Cardinality({i \in 1..Len(rows) :
                               rows[i] # "short" /\ ContainsFail(Upper(rows[i]))})
    IN  [initial_sample_size |-> initial,
         test_method_losses |-> tml,
         actual_sample_size |-> initial - tml,
         defective_units |-> fail]

\* _get_excel_statistics on the rows of the test-article sheet (header first)
get_excel_statistics(data) ==
    LET rows == IF data = <<>> THEN <<>> ELSE Tail(data)
        initial == IF data = <<>> THEN 0 ELSE Len(data) - 1
        tml == Cardinality({i \in 1..Len(rows) :
                               rows[i] # "short" /\ ContainsTml(Upper(rows[i]))})
        fail == Cardinality({i \in 1..Len(rows) :
                               /\ rows[i] # "short"
                               /\ ~ContainsTml(Upper(rows[i]))
                               /\ ContainsFail(Upper(rows[i]))})
    IN  [initial_sample_size |-> initial,
         test_method_losses |-> tml,
         actual_sample_size |-> initial - tml,
         defective_units |-> fail]

NotAnalyzed == [message |-> "not analyzed"]
NotComputed == [message |-> "not computed"]

\* _parse_test_article_sheet lines 607-632: one data row is read
ReadRow ==
    /\ stats_pc = "reading"
    /\ rows_read < MaxRows
    /\ \E key \in SerialNumbers \cup {""},
          row \in [Range(test_result_columns) -> Cells] :
          records' = IF key # "" THEN Put(records, key, row) ELSE records
    /\ rows_read' = rows_read + 1
    /\ UNCHANGED <<test_result_columns, analysis, test_article_data, stats, stats_pc>>
    /\ UNCHANGED notStats

\* _parse_test_article_sheet lines 634-635; the result columns are found
\* while rows are read, so a sheet without data rows has none
AnalyzeTestResults ==
    /\ stats_pc = "reading"
    /\ analysis' = analyze_test_results(records,
                      IF rows_read = 0 THEN <<>> ELSE test_result_columns)
    /\ stats_pc' = "analyzed"
    /\ UNCHANGED <<records, test_result_columns, rows_read, test_article_data, stats>>
    /\ UNCHANGED notStats

\* one more row of the sheet handed to the summary agent (the first is the header)
AddSheetRow ==
    /\ stats_pc = "collecting"
    /\ Len(test_article_data) < MaxRows + 1
    /\ \E cell \in SheetCells :
          test_article_data' = Append(test_article_data,
              IF test_article_data = <<>> THEN "header" ELSE cell)
    /\ UNCHANGED <<records, test_result_columns, rows_read, analysis, stats, stats_pc>>
    /\ UNCHANGED notStats

\* TestResultSummaryAgent._get_excel_statistics
GetExcelStatistics ==
    /\ stats_pc = "collecting"
    /\ stats' = get_excel_statistics(test_article_data)
    /\ stats_pc' = "computed"
    /\ UNCHANGED <<records, test_result_columns, rows_read, analysis, test_article_data>>
    /\ UNCHANGED notStats

StatsStart(header, mode) ==
    /\ records = EmptyMap
    /\ test_result_columns = header
    /\ rows_read = 0
    /\ analysis = NotAnalyzed
    /\ test_article_data = <<>>
    /\ stats = NotComputed
    /\ stats_pc = mode

-----------------------------------------------------------------------------
(* Device-under-test scan and task 4.5 (ai_agents.py, DeviceUnderTestAgent) *)
(* A cell is the sequence of its characters; a keyword of the header list   *)
(* is one element.  A line of the formatted text is the sequence of the     *)
(* cells that " | " joins, or a "=== ... ===" banner.                       *)

DigitChars == {"0", "1", "2", "3", "4", "5", "6", "7", "8", "9"}
DigitChar(d) == <<"0", "1", "2", "3", "4", "5", "6", "7", "8", "9">>[d + 1]

\* str.strip()
RECURSIVE Strip(_)
Strip(s) ==
    IF s = <<>> THEN s
    ELSE IF Head(s) = " " THEN Strip(Tail(s))
    ELSE IF s[Len(s)] = " " THEN Strip(SubSeq(s, 1, Len(s) - 1))
    ELSE s

\* str.isdigit(): non-empty and every character a digit
isdigit(s) == s # <<>> /\ \A i \in 1..Len(s) : s[i] \in DigitChars

\* line 720: the header keywords, matched in the upper-cased line
HeaderKeywords == {"DUT PART NUMBER", "PART NUMBER", "SERIAL NUMBER", "LOT NUMBER"}
UpperChar(c) ==
    IF c = "Serial Number" THEN "SERIAL NUMBER"
    ELSE IF c = "lot number" THEN "LOT NUMBER"
    ELSE IF c = "a" THEN "A"
    ELSE c

\* an eight-digit serial number ending in the two digits of i
SerialNumber(i) ==
    <<"1", "0", "0", "0", "0", "0">> \o <<DigitChar(i \div 10), DigitChar(i % 10)>>

PartCell == <<"P", "N", "1">>
SerialCells == {SerialNumber(1), SerialNumber(2),
                <<" ">> \o SerialNumber(1) \o <<" ">>,
                <<"1", "2", "3", "4", "5", "6", "7">>,
                <<"1", "2", "3", "4", "5", "6", "7", "a">>,
                <<>>}

TextLine(cells) == [banner |-> FALSE, cells |-> cells]
Banner(cells) == [banner |-> TRUE, cells |-> cells]

\* rows of a worksheet: data rows, a header row, a row with a keyword in a
\* note, a row of empty cells, a row of one cell
SheetRows ==
    {<<PartCell, c>> : c \in SerialCells} \cup
    {<<<<"DUT PART NUMBER">>, <<"Serial Number">>>>,
     <<<<"lot number">>, SerialNumber(2)>>,
     <<<<>>, <<>>>>,
     <<SerialNumber(2)>>}

\* a worksheet of n data rows with n different serial numbers under a header
SheetOfDuts(n) ==
    <<<<<<"DUT PART NUMBER">>, <<"Serial Number">>>>>> \o
    [i \in 1..n |-> <<PartCell, SerialNumber(i)>>]

\* line 716: '|' in line and line.strip() and not line.startswith('===')
is_data_line(line) == Len(line.cells) >= 2 /\ ~line.banner

\* line 720: any(header in upper_line for header in [...])
has_header_keyword(line) ==
    \E i \in 1..Len(line.cells) : \E j \in 1..Len(line.cells[i]) :
        UpperChar(line.cells[i][j]) \in HeaderKeywords

\* line 724: parts = [p.strip() for p in line.split('|')]
parts(line) == [i \in 1..Len(line.cells) |-> Strip(line.cells[i])]

\* The shortest serial number accepted (line 730)
MinSerialLength == 8

\* a mutation of the length test of line 730: only longer strings accepted
looks_like_longer_serial(potential_serial) ==
    isdigit(potential_serial) /\ Len(potential_serial) > MinSerialLength

\* line 730: potential_serial and potential_serial.isdigit() and len(...) >= 8
looks_like_serial(potential_serial) ==
    isdigit(potential_serial) /\ Len(potential_serial) >= MinSerialLength

\* lines 716-731: the serial numbers one line adds to unique_serial_numbers
serials_of_line(line) ==
    IF is_data_line(line) /\ ~has_header_keyword(line)
       /\ looks_like_serial(Strip(parts(line)[2]))
    THEN {Strip(parts(line)[2])}
    ELSE {}

\* line 735: return max(1, dut_count)
count_returned(dut_count) == IF dut_count > 1 THEN dut_count ELSE 1

\* The uploaded data files: a name and what the bytes hold
DataFileNames == {"data.xlsx", "DATA.XLSX"}
Extension(filename) == IF filename = "data.xlsx" THEN ".xlsx" ELSE ".XLSX"

\* line 560: more than 10 test articles
AttachmentThreshold == 10

RowTexts ==
    SeqsUpTo(SheetRows, MaxLines) \cup
    {SheetOfDuts(n) : n \in (AttachmentThreshold - 1)..MaxDuts}

DataFile(filename, content, rows) ==
    [filename |-> filename, content |-> content, rows |-> rows]

DataFiles ==
    {<<>>} \cup
    {<<DataFile(n, "workbook", r)>> : n \in DataFileNames, r \in RowTexts} \cup
    {<<DataFile(n, c, <<>>)>> :
        n \in DataFileNames, c \in {"no_sheet", "corrupt", "empty"}}

\* texts handed to _count_test_articles_in_content directly
ExcelTexts ==
    SeqsUpTo({TextLine(r) : r \in SheetRows} \cup
             {Banner(<<<<"=", "=", "=">>, SerialNumber(2)>>)}, MaxLines)

NoDataFound == <<TextLine(<<<<"No test article data found in uploaded files.">>>>)>>

\* lines 664-683: the banner of the worksheet and its rows that hold data
format_worksheet(rows) ==
    <<Banner(<<<<"WORKSHEET">>>>)>> \o
    [i \in 1..Len(SelectSeq(rows, LAMBDA r : \E j \in 1..Len(r) : Strip(r[j]) # <<>>))
        |-> TextLine(SelectSeq(rows,
                LAMBDA r : \E j \in 1..Len(r) : Strip(r[j]) # <<>>)[i])]

\* lines 603-695: what one data file adds to formatted_data
format_data_file(f) ==
    IF f.content = "empty" THEN <<>>
    ELSE IF f.content = "corrupt" THEN <<Banner(<<<<"ERROR PROCESSING FILE">>>>)>>
    ELSE IF f.content = "no_sheet" THEN <<>>
    ELSE format_worksheet(f.rows)

RECURSIVE format_data_files(_)
format_data_files(files) ==
    IF files = <<>> THEN <<>>
    ELSE format_data_file(Head(files)) \o format_data_files(Tail(files))

\* DeviceUnderTestAgent._extract_and_format_excel_data
extract_and_format_excel_data(files) ==
    IF files = <<>> \/ format_data_files(files) = <<>>
    THEN NoDataFound
    ELSE format_data_files(files)

\* lines 634-692: the temporary copy of f is unlinked at line 692, which the
\* exception of load_workbook (line 640) jumps over
temp_left_by_scan(f) ==
    IF f.content = "corrupt" THEN {<<"_extract_and_format_excel_data", f.filename>>}
    ELSE {}

\* line 750: data_file.filename.endswith(('.xlsx', '.xls'))
ends_with_excel(filename) == Extension(filename) \in {".xlsx", ".xls"}

\* DeviceUnderTestAgent._create_test_article_attachment over the uploaded
\* files: the first file whose name ends in .xlsx or .xls is copied.
RECURSIVE test_article_attachment(_)
test_article_attachment(files) ==
    IF files = <<>> THEN NoAttachment
    ELSE IF ends_with_excel(Head(files).filename) THEN RawDataAttachment(req.report)
    ELSE test_article_attachment(Tail(files))

NoDutResult ==
    [success |-> FALSE, content |-> Empty, attachment |-> NoAttachment,
     test_article_count |-> 0, presentation_type |-> "none"]

\* lines 548-585 of create_device_configuration_section
device_configuration_result(files, count) ==
    IF Capability("task_4_5") = "fail"
    THEN [success |-> FALSE, content |-> Fallback("task_4_5"),
          attachment |-> NoAttachment, test_article_count |-> 0,
          presentation_type |-> "none"]
    ELSE [success |-> TRUE, content |-> Generated("task_4_5"),
          attachment |-> IF count > AttachmentThreshold /\ files # <<>>
                         THEN test_article_attachment(files)
                         ELSE NoAttachment,
          test_article_count |-> count,
          presentation_type |-> IF count <= AttachmentThreshold
                                THEN "detailed_table" ELSE "summary"]

notDut == <<pipelineVars, parserVars, statsVars, tableVars, convertVars, documentVars, uploadVars, numberingVars, combinedVars, sheetVars>>

\* line 527: excel_data = await self._extract_and_format_excel_data(data_files)
ExtractAndFormatExcelData ==
    /\ dut_pc = "extract"
    /\ excel_data' = extract_and_format_excel_data(data_files)
    /\ temp_files' = temp_files \cup
                     UNION {temp_left_by_scan(data_files[i]) : i \in 1..Len(data_files)}
    /\ dut_pc' = "scan"
    /\ UNCHANGED <<dut_call, data_files, scan_pos, unique_serial_numbers,
                   test_article_count, dut_result>>
    /\ UNCHANGED notDut

\* lines 715-731: one iteration of the loop over the lines
ScanLine ==
    /\ dut_pc = "scan"
    /\ scan_pos <= Len(excel_data)
    /\ unique_serial_numbers' =
          unique_serial_numbers \cup serials_of_line(excel_data[scan_pos])
    /\ scan_pos' = scan_pos + 1
    /\ UNCHANGED <<dut_call, data_files, excel_data, test_article_count,
                   dut_result, dut_pc, temp_files>>
    /\ UNCHANGED notDut

\* lines 733-735
CountTestArticles ==
    /\ dut_pc = "scan"
    /\ scan_pos > Len(excel_data)
    /\ test_article_count' = count_returned(Cardinality(unique_serial_numbers))
    /\ dut_pc' = IF dut_call = "count" THEN "counted" ELSE "generate"
    /\ UNCHANGED <<dut_call, data_files, excel_data, scan_pos,
                   unique_serial_numbers, dut_result, temp_files>>
    /\ UNCHANGED notDut

\* lines 541-585: the prompt, the generation and the attachment
DeviceConfigurationSection ==
    /\ dut_pc = "generate"
    /\ dut_result' = device_configuration_result(data_files, test_article_count)
    /\ dut_pc' = "returned"
    /\ UNCHANGED <<dut_call, data_files, excel_data, scan_pos,
                   unique_serial_numbers, test_article_count, temp_files>>
    /\ UNCHANGED notDut

DutStart(call, files, text) ==
    /\ dut_call = call
    /\ data_files = files
    /\ excel_data = text
    /\ scan_pos = 1
    /\ unique_serial_numbers = {}
    /\ test_article_count = 0
    /\ dut_result = NoDutResult
    /\ dut_pc = IF call = "task" THEN "extract" ELSE IF call = "count" THEN "scan" ELSE "idle"
    /\ temp_files = {}

-----------------------------------------------------------------------------
(* The attribute-data table of the test-result summary (ai_agents.py,      *)
(* TestResultSummaryAgent._generate_attribute_table)                       *)

\* criteria["confidence_reliability"] as split("/") sees it
ConfidenceTexts == {<<"90%", "90%">>, <<"95", "99%">>, <<"95%">>, <<"N", "A">>}

\* float(part.replace("%", "")): the number, or an exception
Float(part) ==
    CASE part \in {"90%", "90"} -> [raised |-> FALSE, value |-> 90]
      [] part \in {"95%", "95"} -> [raised |-> FALSE, value |-> 95]
      [] part \in {"99%", "99"} -> [raised |-> FALSE, value |-> 99]
      [] OTHER -> [raised |-> TRUE, value |-> 0]

\* format(num / den, ".2%"): the hundredths of a percent that are printed,
\* the quotient rounded to the nearest, a tie to the even digit
Percent(num, den) ==
    LET a == IF num < 0 THEN -num ELSE num
        q == (10000 * a) \div den
        r == (10000 * a) % den
        h == IF 2 * r > den \/ (2 * r = den /\ q % 2 = 1) THEN q + 1 ELSE q
    IN  IF num < 0 THEN -h ELSE h

\* a mutation of line 1847: the share of failures instead of its complement
defect_rate(num_failures, sample_size) == Percent(num_failures, sample_size)

\* line 1847: actual_confidence = 1 - (num_failures / sample_size), as printed
actual_confidence(num_failures, sample_size) ==
    Percent(sample_size - num_failures, sample_size)

TBD == [tbd |-> TRUE, actual |-> 0, target |-> 0]

\* lines 1837-1855: the last cell of the row of one criterion
actual_conf_rel(confidence_rel, stats_of_sheet) ==
    IF Len(confidence_rel) < 2
       \/ Float(confidence_rel[1]).raised \/ Float(confidence_rel[2]).raised
    THEN TBD
    ELSE IF stats_of_sheet.actual_sample_size > 0 /\ stats_of_sheet.defective_units >= 0
         THEN [tbd |-> FALSE,
               actual |-> actual_confidence(stats_of_sheet.defective_units,
                                            stats_of_sheet.actual_sample_size),
               target |-> Percent(Float(confidence_rel[2]).value, 100)]
         ELSE TBD

\* the statistics handed to the table: sizes around the cases of interest
SampleSizes == {-1, 0, 3, 32, 50}
DefectiveCounts == {0, 1, 3}
ExcelStats ==
    {[initial_sample_size |-> n + 1, test_method_losses |-> 1,
      actual_sample_size |-> n, defective_units |-> f] :
        n \in SampleSizes, f \in DefectiveCounts}

CriteriaLists ==
    SeqsUpTo({[req_id |-> "REQ", confidence_reliability |-> c] : c \in ConfidenceTexts},
             MaxCriteria) \ {<<>>}

notTable == <<pipelineVars, parserVars, statsVars, dutVars, convertVars, documentVars, uploadVars, numberingVars, combinedVars, sheetVars>>

\* lines 1835-1868: one iteration of the loop over criteria_info
AttributeRow ==
    /\ table_pc = "rows"
    /\ Len(table_rows) < Len(criteria_info)
    /\ LET criteria == criteria_info[Len(table_rows) + 1]
       IN  table_rows' = Append(table_rows,
              [req_id |-> criteria.req_id,
               confidence_reliability |-> criteria.confidence_reliability,
               actual_sample_size |-> excel_stats.actual_sample_size,
               defective_units |-> excel_stats.defective_units,
               actual_conf_rel |-> actual_conf_rel(criteria.confidence_reliability,
                                                   excel_stats)])
    /\ UNCHANGED <<criteria_info, excel_stats, table_pc>>
    /\ UNCHANGED notTable

\* lines 1870-1877: the table is formatted and returned
ReturnAttributeTable ==
    /\ table_pc = "rows"
    /\ Len(table_rows) = Len(criteria_info)
    /\ table_pc' = "returned"
    /\ UNCHANGED <<criteria_info, excel_stats, table_rows>>
    /\ UNCHANGED notTable

TableStart(criteria, stats_of_sheet, at) ==
    /\ criteria_info = criteria
    /\ excel_stats = stats_of_sheet
    /\ table_rows = <<>>
    /\ table_pc = at

-----------------------------------------------------------------------------
(* Markdown tables: TestResultSummaryAgent._format_word_table writes them  *)
(* (ai_agents.py), DVTReportGenerator.convert_markdown_table_to_word reads *)
(* them into a table of the document (report_generator.py). A text is a    *)
(* sequence of lines, a line a sequence of characters.                     *)

\* str.join
RECURSIVE Join(_, _)
Join(texts, sep) ==
    IF texts = <<>> THEN <<>>
    ELSE IF Len(texts) = 1 THEN texts[1]
    ELSE texts[1] \o sep \o Join(Tail(texts), sep)

\* str.split(sep) for a one-character separator
RECURSIVE Split(_, _)
Split(text, sep) ==
    IF \A i \in 1..Len(text) : text[i] # sep THEN <<text>>
    ELSE LET at == CHOOSE i \in 1..Len(text) :
                       text[i] = sep /\ \A j \in 1..(i - 1) : text[j] # sep
         IN  <<SubSeq(text, 1, at - 1)>> \o Split(SubSeq(text, at + 1, Len(text)), sep)

\* '---' in line
has_dashes(line) ==
    \E i \in 1..(Len(line) - 2) : line[i] = "-" /\ line[i + 1] = "-" /\ line[i + 2] = "-"

\* _format_word_table lines 1911, 1919: "| " + " | ".join(row) + " |"
markdown_row(row) == <<"|", " ">> \o Join(row, <<" ", "|", " ">>) \o <<" ", "|">>

\* _format_word_table line 1912: "|" + "|".join([" --- " for _ in headers]) + "|"
separator_row(header_texts) ==
    <<"|">> \o Join([i \in 1..Len(header_texts) |-> <<" ", "-", "-", "-", " ">>], <<"|">>)
        \o <<"|">>

\* _format_word_table: the lines of the text it returns
format_word_table(header_texts, rows) ==
    <<<<>>, markdown_row(header_texts), separator_row(header_texts)>>
        \o [i \in 1..Len(rows) |-> markdown_row(rows[i])] \o <<<<>>, <<>>>>

\* table_text.strip().split('\n'): blank lines at both ends are gone
RECURSIVE strip_lines(_)
strip_lines(lines) ==
    IF lines = <<>> THEN lines
    ELSE IF Strip(Head(lines)) = <<>> THEN strip_lines(Tail(lines))
    ELSE IF Strip(lines[Len(lines)]) = <<>> THEN strip_lines(SubSeq(lines, 1, Len(lines) - 1))
    ELSE lines

\* line 1602: the stripped lines that start and end with '|'
is_table_line(line) ==
    LET s == Strip(line) IN s # <<>> /\ Head(s) = "|" /\ s[Len(s)] = "|"

table_lines_of(lines) ==
    LET stripped == [i \in 1..Len(lines) |-> Strip(lines[i])]
    IN  SelectSeq(stripped, is_table_line)

\* lines 1608, 1614: [cell.strip() for cell in line.split('|')[1:-1]]
cells_of(line) ==
    LET split == Split(line, "|")
    IN  [i \in 1..(Len(split) - 2) |-> Strip(split[i + 1])]

\* lines 1641-1645: a new row of the table, the cells beyond its width dropped
word_row(row_data, cols) ==
    [j \in 1..cols |-> IF j <= Len(row_data) THEN row_data[j] ELSE <<>>]

\* The texts of table cells: empty, plain, padded, dashes
CellTexts == {<<>>, <<"a">>, <<" ", "b">>, <<"-", "-", "-">>}
HeaderTexts == {<<"R", "E", "Q">>, <<"I", "D">>}
Columns == 1..2
MarkdownTables ==
    UNION {{[header_texts |-> h, rows |-> r] :
               h \in [1..m -> HeaderTexts],
               r \in SeqsUpTo([1..m -> CellTexts], MaxTableRows)} : m \in Columns}

NoTable == [header_texts |-> <<>>, rows |-> <<>>]

notConvert == <<pipelineVars, parserVars, statsVars, dutVars, tableVars, documentVars, uploadVars, numberingVars, combinedVars, sheetVars>>

\* _format_word_table: the agent writes the table as markdown
FormatWordTable ==
    /\ convert_pc = "format"
    /\ table_text' = format_word_table(markdown_table.header_texts, markdown_table.rows)
    /\ convert_pc' = "convert"
    /\ UNCHANGED <<markdown_table, table_lines, data_rows, word_table>>
    /\ UNCHANGED notConvert

\* convert_markdown_table_to_word lines 1597-1608: the table lines are found;
\* fewer than two lines or table lines return None
FindTableLines ==
    /\ convert_pc = "convert"
    /\ LET lines == strip_lines(table_text)
       IN  IF Len(lines) < 2 \/ Len(table_lines_of(lines)) < 2
           THEN /\ convert_pc' = "none"
                /\ UNCHANGED table_lines
           ELSE /\ convert_pc' = "rows"
                /\ table_lines' = SubSeq(table_lines_of(lines), 3,
                                         Len(table_lines_of(lines)))
    /\ UNCHANGED <<markdown_table, table_text, data_rows, word_table>>
    /\ UNCHANGED notConvert

\* lines 1612-1616: one line after the header and the separator is parsed
\* unless it contains '---'
ParseDataLine ==
    /\ convert_pc = "rows"
    /\ table_lines # <<>>
    /\ data_rows' = IF has_dashes(Head(table_lines)) THEN data_rows
                    ELSE Append(data_rows, cells_of(Head(table_lines)))
    /\ table_lines' = Tail(table_lines)
    /\ UNCHANGED <<markdown_table, table_text, word_table, convert_pc>>
    /\ UNCHANGED notConvert

\* lines 1618-1651: the table of the document is created and filled
CreateWordTable ==
    /\ convert_pc = "rows"
    /\ table_lines = <<>>
    /\ LET header_row == cells_of(markdown_row(markdown_table.header_texts))
       IN  IF header_row = <<>>
           THEN /\ convert_pc' = "none"
                /\ UNCHANGED word_table
           ELSE /\ convert_pc' = "returned"
                /\ word_table' = <<word_row(header_row, Len(header_row))>>
                      \o [i \in 1..Len(data_rows) |->
                             word_row(data_rows[i], Len(header_row))]
    /\ UNCHANGED <<markdown_table, table_text, table_lines, data_rows>>
    /\ UNCHANGED notConvert

ConvertStart(table, at) ==
    /\ markdown_table = table
    /\ table_text = <<>>
    /\ table_lines = <<>>
    /\ data_rows = <<>>
    /\ word_table = <<>>
    /\ convert_pc = at

-----------------------------------------------------------------------------
(* The document: DVTReportGenerator.create_word_document_from_template     *)
(* (report_generator.py)                                                   *)

\* lines 33-50: placeholder_mapping, in the order of the dict
placeholder_mapping ==
    << [placeholder |-> "[BK_PURPOSE_TEXT]", content_key |-> "task_4_1_purpose"],
       [placeholder |-> "[BK_SCOPE_TEXT]", content_key |-> "task_4_1_scope"],
       [placeholder |-> "[BK_REFERENCES]", content_key |-> "task_4_2"],
       [placeholder |-> "[BK_ACRONYMS]", content_key |-> "task_4_3"],
       [placeholder |-> "[BK_DEFINITIONS]", content_key |-> "task_4_3"],
       [placeholder |-> "[BK_PROCEDURE_SUMMARY]", content_key |-> "task_4_4"],
       [placeholder |-> "[BK_DUT_CONFIG]", content_key |-> "task_4_5"],
       [placeholder |-> "[BK_TEST_EXECUTION_CHRONOLOGY]",
        content_key |-> "test_execution_chronology"],
       [placeholder |-> "[BK_CONSUMABLES_USED]", content_key |-> "task_4_6"],
       [placeholder |-> "[BK_TEST_RESULT_SUMMARY]", content_key |-> "task_4_7"],
       [placeholder |-> "[BK_TEST_RESULT_ANALYSIS]",
        content_key |-> "test_result_analysis_images"],
       [placeholder |-> "[BK_TEST_METHOD_LOSS_INVESTIGATIONS]",
        content_key |-> "test_method_losses"],
       [placeholder |-> "[BK_PROTOCOL_DEVIATIONS]", content_key |-> "protocol_deviations"],
       [placeholder |-> "[BK_DEFECTIVE_UNIT]",
        content_key |-> "defective_unit_investigations"],
       [placeholder |-> "[BK_CONCLUSION]", content_key |-> "conclusion"],
       [placeholder |-> "[BK_ATTACHMENTS]", content_key |-> "attachments"] >>

Placeholders == {placeholder_mapping[i].placeholder : i \in DOMAIN placeholder_mapping}

\* A section text is plain, or written with the "..._CONTENT:" labels of the
\* purpose/scope and acronym tasks
PlainText(k) == [kind |-> "plain", of |-> k]
LabelledText(k) == [kind |-> "labelled", of |-> k]

\* clean_markdown_content: the text without its markdown; "" stays ""
clean_markdown_content(content) ==
    IF Truthy(content) THEN [kind |-> "cleaned", of |-> content.of] ELSE Empty

\* placeholder.replace('[', '').replace(']', '')
WithoutBrackets ==
    {<<"[BK_PURPOSE_TEXT]", "BK_PURPOSE_TEXT">>,
     <<"[BK_SCOPE_TEXT]", "BK_SCOPE_TEXT">>,
     <<"[BK_REFERENCES]", "BK_REFERENCES">>,
     <<"[BK_ACRONYMS]", "BK_ACRONYMS">>,
     <<"[BK_DEFINITIONS]", "BK_DEFINITIONS">>,
     <<"[BK_PROCEDURE_SUMMARY]", "BK_PROCEDURE_SUMMARY">>,
     <<"[BK_DUT_CONFIG]", "BK_DUT_CONFIG">>,
     <<"[BK_TEST_EXECUTION_CHRONOLOGY]", "BK_TEST_EXECUTION_CHRONOLOGY">>,
     <<"[BK_CONSUMABLES_USED]", "BK_CONSUMABLES_USED">>,
     <<"[BK_TEST_RESULT_SUMMARY]", "BK_TEST_RESULT_SUMMARY">>,
     <<"[BK_TEST_RESULT_ANALYSIS]", "BK_TEST_RESULT_ANALYSIS">>,
     <<"[BK_TEST_METHOD_LOSS_INVESTIGATIONS]", "BK_TEST_METHOD_LOSS_INVESTIGATIONS">>,
     <<"[BK_PROTOCOL_DEVIATIONS]", "BK_PROTOCOL_DEVIATIONS">>,
     <<"[BK_DEFECTIVE_UNIT]", "BK_DEFECTIVE_UNIT">>,
     <<"[BK_CONCLUSION]", "BK_CONCLUSION">>,
     <<"[BK_ATTACHMENTS]", "BK_ATTACHMENTS">>}
content_key_clean(placeholder) ==
    (CHOOSE pair \in WithoutBrackets : pair[1] = placeholder)[2]

\* The placeholders whose branch of extract_content_sections always stores
\* the cleaned section
StoredCleaned ==
    {"[BK_ACRONYMS]", "[BK_DEFINITIONS]", "[BK_REFERENCES]", "[BK_PROCEDURE_SUMMARY]",
     "[BK_DUT_CONFIG]", "[BK_CONSUMABLES_USED]", "[BK_TEST_METHOD_LOSS_INVESTIGATIONS]",
     "[BK_PROTOCOL_DEVIATIONS]", "[BK_DEFECTIVE_UNIT]", "[BK_TEST_RESULT_SUMMARY]",
     "[BK_TEST_RESULT_ANALYSIS]"}

\* extract_content_sections lines 1450-1579: what one placeholder stores in
\* content_mapping. There is no branch for [BK_CONCLUSION] or
\* [BK_ATTACHMENTS]; the scope of a text without the word SCOPE is not found.
extracted(placeholder, section_content) ==
    CASE placeholder = "[BK_PURPOSE_TEXT]" ->
            IF Truthy(section_content)
            THEN [stored |-> TRUE, content |-> clean_markdown_content(section_content)]
            ELSE [stored |-> FALSE, content |-> Empty]
      [] placeholder = "[BK_SCOPE_TEXT]" ->
            IF section_content.kind = "labelled"
            THEN [stored |-> TRUE, content |-> clean_markdown_content(section_content)]
            ELSE [stored |-> FALSE, content |-> Empty]
      [] placeholder = "[BK_TEST_EXECUTION_CHRONOLOGY]" ->
            [stored |-> TRUE, content |-> section_content]
      [] placeholder \in StoredCleaned ->
            [stored |-> TRUE, content |-> clean_markdown_content(section_content)]
      [] OTHER -> [stored |-> FALSE, content |-> Empty]

\* extract_content_sections: the loop over placeholder_mapping
RECURSIVE extract_content_sections(_, _)
extract_content_sections(doc_map, n) ==
    IF n = 0 THEN EmptyMap
    ELSE LET before == extract_content_sections(doc_map, n - 1)
             entry == placeholder_mapping[n]
         IN  IF entry.content_key \in DOMAIN doc_map
                /\ extracted(entry.placeholder, doc_map[entry.content_key]).stored
             THEN Put(before, content_key_clean(entry.placeholder),
                      extracted(entry.placeholder, doc_map[entry.content_key]).content)
             ELSE before

\* lines 1815-1821: the content that replaces a placeholder found in a paragraph
replacement_content(entry, doc_map, mapping) ==
    IF Truthy(Get(doc_map, entry.content_key, Empty))
    THEN Get(doc_map, entry.content_key, Empty)
    ELSE Get(mapping, content_key_clean(entry.placeholder), Empty)

\* The keys generate_report_sections writes with a client (lines 491-608, 651)
\* and without one (lines 615-651), among those the document reads
KeysWithClient ==
    {"task_4_5", "task_4_1_purpose", "task_4_1_scope", "task_4_2", "task_4_4",
     "test_execution_chronology", "test_result_analysis_images", "task_4_6",
     "task_4_7", "protocol_deviations", "defective_unit_investigations",
     "test_method_losses", "conclusion", "task_4_3", "attachments"}
KeysWithoutClient ==
    {"task_4_1", "task_4_2", "task_4_3", "task_4_4", "dut_config", "equipment",
     "task_4_7", "protocol_deviations", "defective_unit_investigations",
     "test_method_losses", "conclusion", "attachments"}
SectionMaps ==
    {[k \in keys |-> IF form = "plain" THEN PlainText(k) ELSE LabelledText(k)] :
        keys \in {KeysWithClient, KeysWithoutClient}, form \in {"plain", "labelled"}}
    \cup {[k \in KeysWithClient |-> IF k = "task_4_7" THEN Empty ELSE PlainText(k)]}

\* A template: the paragraphs of its body, each with at most one placeholder;
\* at most MaxMissing placeholders of the mapping occur in none
Paragraph(p) == [role |-> "template", placeholder |-> p, text |-> Empty]
BodyLacking(missing) ==
    SelectSeq([i \in DOMAIN placeholder_mapping |->
                  Paragraph(placeholder_mapping[i].placeholder)],
              LAMBDA para : para.placeholder \notin missing)
Templates ==
    {<<Paragraph("none")>> \o BodyLacking(missing) :
        missing \in {m \in SUBSET Placeholders : Cardinality(m) <= MaxMissing}}

notDocument == <<pipelineVars, parserVars, statsVars, dutVars, tableVars, convertVars, uploadVars, numberingVars, combinedVars, sheetVars>>

\* lines 1789-1807: the template is checked and loaded, the contents extracted
LoadTemplate ==
    /\ doc_pc = "start"
    /\ IF template_exists
       THEN /\ content_mapping' =
                 Put(extract_content_sections(doc_sections, Len(placeholder_mapping)),
                     "intro", Literal("intro"))
            /\ doc_pc' = "replace"
       ELSE /\ doc_pc' = "raised"
            /\ UNCHANGED content_mapping
    /\ UNCHANGED <<template_exists, doc_sections, doc_paragraphs, doc_pos,
                   placeholders_found>>
    /\ UNCHANGED notDocument

\* lines 1813-1864: one paragraph of the body; its placeholder is recorded as
\* found and replaced by the content, when there is content
ReplaceInParagraph ==
    /\ doc_pc = "replace"
    /\ doc_pos <= Len(doc_paragraphs)
    /\ LET paragraph == doc_paragraphs[doc_pos]
           entries == SelectSeq(placeholder_mapping,
                                LAMBDA e : e.placeholder = paragraph.placeholder)
       IN  IF entries = <<>>
           THEN UNCHANGED <<doc_paragraphs, placeholders_found>>
           ELSE /\ placeholders_found' = placeholders_found \cup {paragraph.placeholder}
                /\ doc_paragraphs' =
                     [doc_paragraphs EXCEPT ![doc_pos].text =
                        replacement_content(entries[1], doc_sections, content_mapping)]
    /\ doc_pos' = doc_pos + 1
    /\ UNCHANGED <<template_exists, doc_sections, content_mapping, doc_pc>>
    /\ UNCHANGED notDocument

\* line 1867 is reached: the loop over the paragraphs is over
BodyDone ==
    /\ doc_pc = "replace"
    /\ doc_pos > Len(doc_paragraphs)
    /\ doc_pc' = "missing"
    /\ doc_pos' = 1
    /\ UNCHANGED <<template_exists, doc_sections, content_mapping, doc_paragraphs,
                   placeholders_found>>
    /\ UNCHANGED notDocument

\* lines 1867-1885: one placeholder of the mapping; when it was not found and
\* content_mapping has content under its name, a note and the content are
\* added to the end of the document
AppendMissingContent ==
    /\ doc_pc = "missing"
    /\ doc_pos <= Len(placeholder_mapping)
    /\ LET placeholder == placeholder_mapping[doc_pos].placeholder
           content == Get(content_mapping, content_key_clean(placeholder), Empty)
       IN  IF placeholder \notin placeholders_found /\ Truthy(content)
           THEN doc_paragraphs' = doc_paragraphs \o
                   << [role |-> "blank", placeholder |-> "none", text |-> Empty],
                      [role |-> "note", placeholder |-> placeholder, text |-> Empty],
                      [role |-> "content", placeholder |-> "none", text |-> content] >>
           ELSE UNCHANGED doc_paragraphs
    /\ doc_pos' = doc_pos + 1
    /\ UNCHANGED <<template_exists, doc_sections, content_mapping, placeholders_found,
                   doc_pc>>
    /\ UNCHANGED notDocument

\* lines 1887-1904: the document is saved and its path returned
SaveDocument ==
    /\ doc_pc = "missing"
    /\ doc_pos > Len(placeholder_mapping)
    /\ doc_pc' = "saved"
    /\ UNCHANGED <<template_exists, doc_sections, content_mapping, doc_paragraphs,
                   doc_pos, placeholders_found>>
    /\ UNCHANGED notDocument

DocumentStart(exists, doc_map, body, at) ==
    /\ template_exists = exists
    /\ doc_sections = doc_map
    /\ content_mapping = EmptyMap
    /\ doc_paragraphs = body
    /\ doc_pos = 1
    /\ placeholders_found = {}
    /\ doc_pc = at

-----------------------------------------------------------------------------
(* Uploaded files: DVTReportGenerator.process_files with the operations    *)
(* that write the uploaded bytes to a temporary file (report_generator.py, *)
(* doc_parsers.py, excel_parsers.py). An upload is "ok", a Word document   *)
(* without numbered sections ("no sections"), "corrupt" (the library       *)
(* cannot load its bytes) or "unreadable" (read() raises).                 *)

NoFile == [filename |-> "none", state |-> "none"]
ProtocolFiles ==
    {NoFile} \cup
    {[filename |-> f, state |-> s] :
        f \in {"protocol.docx", "protocol.DOCX"},
        s \in {"ok", "no sections", "corrupt", "unreadable"}}
UploadedDataFiles ==
    SeqsUpTo({[filename |-> f, state |-> s] :
                 f \in {"data.xlsx", "data.csv"},
                 s \in {"ok", "corrupt", "unreadable"}}, MaxDataFiles)

\* str.endswith of a file name
EndsWith(filename, suffixes) ==
    CASE filename = "protocol.docx" -> ".docx" \in suffixes
      [] filename = "data.xlsx" -> ".xlsx" \in suffixes
      [] OTHER -> FALSE

\* the name of a NamedTemporaryFile(delete=False) an operation created
TempFile(operation, file) == <<operation, file.filename>>

\* DocumentParser.parse_document (doc_parsers.py lines 26-69): the temporary
\* file is removed in a finally block; every exception is raised again
parse_document(file) ==
    CASE file.state = "ok" -> [raised |-> FALSE, data |-> "sections", left |-> {}]
      [] file.state = "no sections" -> [raised |-> FALSE, data |-> "empty", left |-> {}]
      [] OTHER -> [raised |-> TRUE, data |-> "empty", left |-> {}]

\* extract_document_content lines 326-345: read() without seek gives no
\* bytes once the upload was read; os.unlink is skipped when Document raises;
\* every exception returns ""
extract_document_content(file, consumed) ==
    IF file.state = "unreadable" THEN [content |-> "", left |-> {}]
    ELSE IF consumed \/ file.state = "corrupt"
         THEN [content |-> "", left |-> {TempFile("extract_document_content", file)}]
         ELSE [content |-> "text", left |-> {}]

\* analyze_protocol lines 374-383
analyze_protocol(content) == IF content = "" THEN "no protocol content" ELSE "analyzed"

\* extract_excel_data lines 347-372
extract_excel_data(file) ==
    CASE file.state = "ok" ->
            [data |-> [filename |-> file.filename, error |-> FALSE], left |-> {}]
      [] file.state = "corrupt" ->
            [data |-> [filename |-> file.filename, error |-> TRUE],
             left |-> {TempFile("extract_excel_data", file)}]
      [] OTHER -> [data |-> [filename |-> file.filename, error |-> TRUE], left |-> {}]

\* BaseExcelParser.parse_uploaded_file (excel_parsers.py lines 21-57): the
\* parse_excel_file of each parser catches what load_workbook raises, so
\* os.unlink is reached; a failing seek or read returns {}
parse_uploaded_file(file) ==
    [parsed |-> file.state = "ok", left |-> {}]

\* lines 93-162: the protocol_data of the results
protocol_data_of(file) ==
    IF file = NoFile THEN [data |-> "none", left |-> {}]
    ELSE IF EndsWith(file.filename, {".docx"})
         THEN IF ~parse_document(file).raised /\ parse_document(file).data # "empty"
              THEN [data |-> "structured_docx", left |-> parse_document(file).left]
              ELSE [data |-> analyze_protocol(extract_document_content(file, TRUE).content),
                    left |-> parse_document(file).left \cup
                             extract_document_content(file, TRUE).left]
         ELSE [data |-> analyze_protocol(extract_document_content(file, FALSE).content),
               left |-> extract_document_content(file, FALSE).left]

ParsedKeys == {"test_articles", "equipment_logs", "deviations", "defective_units"}

notUpload == <<pipelineVars, parserVars, statsVars, dutVars, tableVars, convertVars,
               documentVars, numberingVars, combinedVars, sheetVars>>

\* process_files lines 84-162: the results are created and the protocol
\* document processed
ProcessProtocol ==
    /\ upload_pc = "protocol"
    /\ file_results' = [file_results EXCEPT !.protocol_data =
                                               protocol_data_of(protocol_file).data]
    /\ tmp_files' = tmp_files \cup protocol_data_of(protocol_file).left
    /\ upload_pc' = "data"
    /\ UNCHANGED <<protocol_file, uploaded_files, upload_pos>>
    /\ UNCHANGED notUpload

\* lines 167-300: one data file; other names than .xlsx/.xls are passed over
ProcessDataFile ==
    /\ upload_pc = "data"
    /\ upload_pos <= Len(uploaded_files)
    /\ LET data_file == uploaded_files[upload_pos]
       IN  IF EndsWith(data_file.filename, {".xlsx", ".xls"})
           THEN /\ file_results' =
                     [file_results EXCEPT
                        !.test_data = Append(@, extract_excel_data(data_file).data),
                        !.parsed_excel_data =
                           IF parse_uploaded_file(data_file).parsed
                           THEN @ \cup ParsedKeys ELSE @]
                /\ tmp_files' = tmp_files \cup extract_excel_data(data_file).left
                                          \cup parse_uploaded_file(data_file).left
           ELSE UNCHANGED <<file_results, tmp_files>>
    /\ upload_pos' = upload_pos + 1
    /\ UNCHANGED <<protocol_file, uploaded_files, upload_pc>>
    /\ UNCHANGED notUpload

\* line 324: return results
ReturnResults ==
    /\ upload_pc = "data"
    /\ upload_pos > Len(uploaded_files)
    /\ upload_pc' = "returned"
    /\ UNCHANGED <<protocol_file, uploaded_files, file_results, tmp_files, upload_pos>>
    /\ UNCHANGED notUpload

NoFileResults == [protocol_data |-> "none", test_data |-> <<>>, parsed_excel_data |-> {}]

UploadStart(protocol, files, at) ==
    /\ protocol_file = protocol
    /\ uploaded_files = files
    /\ file_results = NoFileResults
    /\ tmp_files = {}
    /\ upload_pos = 1
    /\ upload_pc = at

-----------------------------------------------------------------------------
(* Numbering of the generated narratives (ai_agents.py):                   *)
(* ProtocolDeviationsAgent._fix_deviation_numbering,                       *)
(* DefectiveUnitInvestigationsAgent._fix_investigation_numbering and       *)
(* TestMethodLossAgent._format_final_content. A line of a narrative is a   *)
(* header of its kind with a number ("DEVIATION #2: ..."), a list item     *)
(* ("2. ...") or other text.                                               *)

Narratives == {"deviations", "defective units", "test method losses"}
Header(n) == [form |-> "header", number |-> n]
ListItem(n) == [form |-> "list item", number |-> n]
OtherText == [form |-> "text", number |-> 0]
NarrativeLines ==
    {Header(n) : n \in 1..MaxNumber} \cup {ListItem(n) : n \in 1..MaxNumber} \cup {OtherText}
Responses == SeqsUpTo(NarrativeLines, MaxNarrativeLines)

\* _is_deviation_header lines 2045-2058, _is_investigation_header: the line
\* holds the header words with a number, or begins with a number and a dot
is_header(line) == line.form \in {"header", "list item"}

\* lines 2037, 2222: f"DEVIATION #{deviation_counter}: ...",
\* f"DEFECTIVE UNIT INVESTIGATION #{investigation_counter}"
standardized_header(line, counter) == Header(counter)

notNumbering == <<pipelineVars, parserVars, statsVars, dutVars, tableVars, convertVars,
                  documentVars, uploadVars, combinedVars, sheetVars>>

\* _fix_deviation_numbering lines 2031-2041: one line of the loop
FixDeviationLine ==
    /\ numbering_pc = "lines"
    /\ narrative = "deviations"
    /\ Len(processed_lines) < Len(response_lines)
    /\ LET line == response_lines[Len(processed_lines) + 1]
       IN  IF is_header(line)
           THEN /\ processed_lines' =
                     Append(processed_lines, standardized_header(line, deviation_counter))
                /\ deviation_counter' = deviation_counter + 1
           ELSE /\ processed_lines' = Append(processed_lines, line)
                /\ UNCHANGED deviation_counter
    /\ UNCHANGED <<narrative, response_lines, numbering_pc>>
    /\ UNCHANGED notNumbering

\* _fix_investigation_numbering lines 2216-2226: one line of the loop
FixInvestigationLine ==
    /\ numbering_pc = "lines"
    /\ narrative = "defective units"
    /\ Len(processed_lines) < Len(response_lines)
    /\ LET line == response_lines[Len(processed_lines) + 1]
       IN  IF is_header(line)
           THEN /\ processed_lines' =
                     Append(processed_lines, standardized_header(line, deviation_counter))
                /\ deviation_counter' = deviation_counter + 1
           ELSE /\ processed_lines' = Append(processed_lines, line)
                /\ UNCHANGED deviation_counter
    /\ UNCHANGED <<narrative, response_lines, numbering_pc>>
    /\ UNCHANGED notNumbering

\* lines 2043, 2228: the lines are joined and returned
ReturnNumbered ==
    /\ numbering_pc = "lines"
    /\ narrative \in {"deviations", "defective units"}
    /\ Len(processed_lines) = Len(response_lines)
    /\ numbering_pc' = "returned"
    /\ UNCHANGED <<narrative, response_lines, processed_lines, deviation_counter>>
    /\ UNCHANGED notNumbering

\* TestMethodLossAgent._format_final_content lines 1385-1399: the response is
\* stripped and a leading section header removed; its lines stay as they are
FormatFinalContent ==
    /\ numbering_pc = "lines"
    /\ narrative = "test method losses"
    /\ processed_lines' = response_lines
    /\ numbering_pc' = "returned"
    /\ UNCHANGED <<narrative, response_lines, deviation_counter>>
    /\ UNCHANGED notNumbering

NumberingStart(kind, response, at) ==
    /\ narrative = kind
    /\ response_lines = response
    /\ processed_lines = <<>>
    /\ deviation_counter = 1
    /\ numbering_pc = at

-----------------------------------------------------------------------------
(* Workbooks: TestArticleParser and CombinedExcelParser (excel_parsers.py). *)
(* A column name is the sequence of its words; a sheet has its column      *)
(* names in row 1 and the cell texts of its data rows below.               *)

LowerWord(w) ==
    CASE w = "DUT" -> "dut"
      [] w = "Serial" -> "serial"
      [] w = "Number" -> "number"
      [] w = "Part" -> "part"
      [] w = "Test" -> "test"
      [] w = "Result" -> "result"
      [] OTHER -> w

\* str.lower()
Lower(name) == [i \in 1..Len(name) |-> LowerWord(name[i])]

\* sub in name
Contains(name, sub) ==
    \E i \in 1..(Len(name) - Len(sub) + 1) : SubSeq(name, i, i + Len(sub) - 1) = sub

DutSerialNumber == <<"DUT", "Serial", "Number">>
KeyColumns ==
    {DutSerialNumber, <<"Serial", "Number">>, <<"dut", "serial", "no.">>, <<"Part", "Number">>}
TestResult1 == <<"Test", "Result", "1">>

\* line 591: the column is taken as primary key
is_primary_key(key_name, column_name) ==
    \/ Contains(Lower(column_name), Lower(key_name))
    \/ Contains(Lower(column_name), <<"dut", "serial">>)

\* lines 585-594: the last column that is taken as primary key (0: none) and
\* the name self.primary_key holds after the loop
RECURSIVE find_primary_key(_, _, _)
find_primary_key(columns, n, key_name) ==
    IF n = 0 THEN [col |-> 0, name |-> key_name]
    ELSE LET before == find_primary_key(columns, n - 1, key_name)
         IN  IF is_primary_key(before.name, columns[n])
             THEN [col |-> n, name |-> columns[n]]
             ELSE before

\* line 623: re.match(r'^test result', column_name.lower())
is_test_result(column_name) ==
    Len(column_name) >= 2 /\ SubSeq(Lower(column_name), 1, 2) = <<"test", "result">>

\* lines 606-632: the records of the rows 1..n, a later row with the key of
\* an earlier one taking its place
RECURSIVE records_of(_, _, _)
records_of(sheet, key_col, n) ==
    IF n = 0 THEN EmptyMap
    ELSE LET row == sheet.rows[n]
             row_dict == [c \in Range(sheet.columns) |->
                             row[CHOOSE i \in 1..Len(sheet.columns) :
                                    sheet.columns[i] = c
                                    /\ \A j \in (i + 1)..Len(sheet.columns) :
                                          sheet.columns[j] # c]]
             has_data == \E i \in 1..Len(row) : row[i] # ""
         IN  IF has_data /\ row[key_col] # ""
             THEN Put(records_of(sheet, key_col, n - 1), row[key_col], row_dict)
             ELSE records_of(sheet, key_col, n - 1)

NoSheetData == [found |-> FALSE]

\* _parse_test_article_sheet lines 567-655 (None is NoSheetData)
parse_test_article_sheet(sheet, key_name) ==
    LET key == find_primary_key(sheet.columns, Len(sheet.columns), key_name)
        result_columns == IF sheet.rows = <<>> THEN <<>>
                          ELSE SelectSeq(sheet.columns, is_test_result)
    IN  IF sheet.rows = <<>> THEN [data |-> NoSheetData, primary_key |-> key_name]
        ELSE IF key.col = 0 THEN [data |-> NoSheetData, primary_key |-> key.name]
        ELSE [data |-> [found |-> TRUE,
                        total_units |->
                            Cardinality(DOMAIN records_of(sheet, key.col, Len(sheet.rows))),
                        test_results_analysis |->
                            analyze_test_results(
                                records_of(sheet, key.col, Len(sheet.rows)), result_columns),
                        records |-> records_of(sheet, key.col, Len(sheet.rows))],
              primary_key |-> key.name]

\* _is_target_sheet lines 562-565, on the sheet names below
TargetSheetNames == {"TEST ARTICLE LOG & TEST RESULTS", "Test Results"}

\* TestArticleParser.parse_excel_file lines 522-560: the extraction returned,
\* and parsed_data and primary_key of the instance afterwards. parsed_data is
\* assigned on the successful path only (line 553).
parse_excel_file(workbook, instance) ==
    IF workbook.state = "corrupt" \/ workbook.sheet.name \notin TargetSheetNames
    THEN [returned |-> NoSheetData, parsed_data |-> instance.parsed_data,
          primary_key |-> instance.primary_key]
    ELSE LET parsed == parse_test_article_sheet(workbook.sheet, instance.primary_key)
         IN  [returned |-> parsed.data,
              parsed_data |-> IF parsed.data.found THEN parsed.data
                              ELSE instance.parsed_data,
              primary_key |-> parsed.primary_key]

\* get_dut_count lines 698-702
get_dut_count(parsed) == IF parsed.found THEN parsed.total_units ELSE 0

\* the sheets of the other three parsers a workbook holds
OtherSheets == {"EQUIPMENT USED", "DEVIATIONS", "DEFECTIVE UNITS"}

NoSheet == [name |-> "none", columns |-> <<>>, rows |-> <<>>]
Corrupt == [state |-> "corrupt", sheet |-> NoSheet, others |-> {}]
Workbook(sheet, others) == [state |-> "ok", sheet |-> sheet, others |-> others]

SheetsWith(columns) ==
    {[name |-> "TEST ARTICLE LOG & TEST RESULTS", columns |-> columns, rows |-> rows] :
        rows \in SeqsUpTo([1..Len(columns) ->
                              IF Len(columns) = 1 THEN {"SN1", "SN2", ""}
                              ELSE {"SN1", "SN2", "", "PASS", "FAIL"}], MaxSheetRows)}
TestArticleSheets ==
    UNION {SheetsWith(<<k>>) : k \in KeyColumns}
    \cup UNION {{s \in SheetsWith(<<k, TestResult1>>) :
                    \A i \in 1..Len(s.rows) :
                        s.rows[i][1] \in {"SN1", "SN2", ""}
                        /\ s.rows[i][2] \in {"PASS", "FAIL"}} : k \in KeyColumns}

\* the workbooks of a list of several files
ListedWorkbooks ==
    {Corrupt,
     Workbook([name |-> "Sheet1", columns |-> <<DutSerialNumber>>,
               rows |-> << <<"SN1">> >>], OtherSheets),
     Workbook([name |-> "Test Results", columns |-> <<DutSerialNumber, TestResult1>>,
               rows |-> << <<"SN1", "PASS">>, <<"SN2", "FAIL">> >>], OtherSheets),
     Workbook([name |-> "Test Results", columns |-> << <<"dut", "serial", "no.">> >>,
               rows |-> << <<"SN1">> >>], {}),
     Workbook([name |-> "Test Results", columns |-> << <<"Serial", "Number">>, TestResult1>>,
               rows |-> << <<"SN1", "PASS">> >>], {})}
FileLists ==
    (SeqsUpTo(ListedWorkbooks, MaxFiles) \ {<<>>})
    \cup {<<Workbook(s, {})>> : s \in TestArticleSheets}

NewResults ==
    [test_article_data |-> NoSheetData, other_data |-> {}, files_processed |-> 0,
     sheets_found |-> <<>>, errors |-> <<>>]

notCombined == <<pipelineVars, parserVars, statsVars, dutVars, tableVars, convertVars,
                 documentVars, uploadVars, numberingVars, sheetVars>>

\* parse_all_excel_files lines 815-857: one file of the list goes through
\* the four parsers. Each parse_uploaded_file returns {} when the workbook
\* cannot be loaded, so the except clause of line 854 is not reached.
ParseFile ==
    /\ combined_pc = "files"
    /\ excel_pos <= Len(excel_files)
    /\ LET data_file == excel_files[excel_pos]
           test_results == parse_excel_file(data_file,
                               [parsed_data |-> parsed_data_of_parser,
                                primary_key |-> primary_key])
       IN  /\ parsed_data_of_parser' = test_results.parsed_data
           /\ primary_key' = test_results.primary_key
           /\ last_returned' = test_results.returned
           /\ all_results' =
                [all_results EXCEPT
                   !.test_article_data =
                       IF test_results.returned.found THEN test_results.returned ELSE @,
                   !.sheets_found =
                       IF test_results.returned.found
                       THEN Append(@, "TEST_ARTICLE_DATA") ELSE @,
                   !.other_data = @ \cup data_file.others,
                   !.files_processed = @ + 1]
    /\ excel_pos' = excel_pos + 1
    /\ UNCHANGED <<excel_files, combined_pc>>
    /\ UNCHANGED notCombined

\* lines 859-862 and _print_parsing_summary lines 864-904: the summary is
\* printed, which reads analysis['pass_count'] and raises KeyError when the
\* sheet had no test-result column; otherwise the results are returned
ReturnAllResults ==
    /\ combined_pc = "files"
    /\ excel_pos > Len(excel_files)
    /\ combined_pc' =
         IF all_results.test_article_data.found
            /\ "pass_count" \notin DOMAIN all_results.test_article_data.test_results_analysis
         THEN "raised" ELSE "returned"
    /\ UNCHANGED <<excel_files, excel_pos, all_results, parsed_data_of_parser,
                   primary_key, last_returned>>
    /\ UNCHANGED notCombined

CombinedStart(files, at) ==
    /\ excel_files = files
    /\ excel_pos = 1
    /\ all_results = NewResults
    /\ parsed_data_of_parser = NoSheetData
    /\ primary_key = DutSerialNumber
    /\ last_returned = NoSheetData
    /\ combined_pc = at

-----------------------------------------------------------------------------
(* Sheets as records: BaseExcelParser._parse_sheet_to_dict                 *)
(* (excel_parsers.py). A cell value is what openpyxl hands over: None, a   *)
(* str, an int or a bool, with the text str() gives for it.                *)

NoneCell == [type |-> "none", text |-> <<"None">>]
StrCell(text) == [type |-> "str", text |-> text]
IntCell(digits) == [type |-> "int", text |-> <<digits>>]
BoolCell(word) == [type |-> "bool", text |-> <<word>>]

\* bool(cell_value)
cell_truthy(cell_value) ==
    CASE cell_value.type = "none" -> FALSE
      [] cell_value.type = "str" -> cell_value.text # <<>>
      [] cell_value.type = "int" -> cell_value.text # <<"0">>
      [] cell_value.type = "bool" -> cell_value.text = <<"True">>

\* str(cell_value).strip() if cell_value else ""
cell_str(cell_value) == IF cell_truthy(cell_value) THEN Strip(cell_value.text) ELSE <<>>

\* str(cell_value).strip() if cell_value else f"Column{col}"
column_name(cell_value, col) ==
    IF cell_truthy(cell_value) THEN Strip(cell_value.text)
    ELSE <<"Column" \o ToString(col)>>

columns_of(header) == [col \in 1..Len(header) |-> column_name(header[col], col)]

\* row_dict[column_name] = cell_str, column by column: of two columns with
\* one name the later one stays
row_dict_of(columns, row) ==
    [c \in Range(columns) |->
        cell_str(row[CHOOSE i \in 1..Len(columns) :
                        columns[i] = c /\ \A j \in (i + 1)..Len(columns) : columns[j] # c])]

has_data(row) == \E col \in 1..Len(row) : cell_str(row[col]) # <<>>

CellValues == {NoneCell, StrCell(<<" ", "b">>), IntCell("0"), BoolCell("False")}
HeaderRows ==
    {<<StrCell(<<"ID">>)>>, <<NoneCell>>,
     <<StrCell(<<"ID">>), StrCell(<<"Lot">>)>>,
     <<StrCell(<<"ID">>), NoneCell>>,
     <<StrCell(<<"ID">>), StrCell(<<"ID">>)>>}
Worksheets ==
    {ws \in {[header |-> h, rows |-> r] :
                h \in HeaderRows,
                r \in SeqsUpTo({<<a>> : a \in CellValues}
                               \cup {<<a, b>> : a \in CellValues, b \in CellValues},
                               MaxDataRows)} :
        \A i \in 1..Len(ws.rows) : Len(ws.rows[i]) = Len(ws.header)}

notSheet == <<pipelineVars, parserVars, statsVars, dutVars, tableVars, convertVars, documentVars, uploadVars, numberingVars, combinedVars>>

\* lines 90-95: the column names of the first row
ReadColumns ==
    /\ sheet_pc = "start"
    /\ sheet_columns' = columns_of(worksheet.header)
    /\ sheet_row' = 1
    /\ sheet_pc' = "rows"
    /\ UNCHANGED <<worksheet, sheet_data>>
    /\ UNCHANGED notSheet

\* lines 101-119: one data row
ReadDataRow ==
    /\ sheet_pc = "rows"
    /\ sheet_row <= Len(worksheet.rows)
    /\ LET row == worksheet.rows[sheet_row]
       IN  sheet_data' = IF has_data(row)
                         THEN Append(sheet_data, row_dict_of(sheet_columns, row))
                         ELSE sheet_data
    /\ sheet_row' = sheet_row + 1
    /\ UNCHANGED <<worksheet, sheet_columns, sheet_pc>>
    /\ UNCHANGED notSheet

\* lines 121-126
ReturnSheetDict ==
    /\ sheet_pc = "rows"
    /\ sheet_row > Len(worksheet.rows)
    /\ sheet_pc' = "returned"
    /\ UNCHANGED <<worksheet, sheet_columns, sheet_data, sheet_row>>
    /\ UNCHANGED notSheet

SheetStart(ws, at) ==
    /\ worksheet = ws
    /\ sheet_columns = <<>>
    /\ sheet_data = <<>>
    /\ sheet_row = 0
    /\ sheet_pc = at

-----------------------------------------------------------------------------
(* Specifications *)

\* main.py:32-33 and report_generator.py:22-29: the process has started
PipelineStart(clients, keywords) ==
    /\ client \in clients
    /\ call_keywords = keywords
    /\ generated_attachments = <<>>
    /\ served = 0
    /\ pc = "idle"
    /\ req = NoRequest
    /\ sections = EmptyMap
    /\ ai_results = NoResults
    /\ results = NoResults
    /\ order = <<>>
    /\ complete_report = NotBuilt

Init ==
    /\ SheetStart([header |-> <<>>, rows |-> <<>>], "idle")
    /\ CombinedStart(<<>>, "idle")
    /\ NumberingStart("none", <<>>, "idle")
    /\ UploadStart(NoFile, <<>>, "idle")
    /\ DocumentStart(FALSE, EmptyMap, <<>>, "idle")
    /\ ConvertStart(NoTable, "idle")
    /\ TableStart(<<>>, NotComputed, "idle")
    /\ PipelineStart(BOOLEAN, GeneratorCallKeywords)
    /\ ParserStart(<<>>)
    /\ StatsStart(<<>>, "reading")
    /\ DutStart("none", <<>>, <<>>)

Next ==
    \/ NewRequest
    \/ TestConnection
    \/ ExecuteTasks4_1To4_4
    \/ FallbackScopeAndPurpose
    \/ FallbackReferences
    \/ FallbackAcronyms
    \/ FallbackProcedureSummary
    \/ FallbackDutConfiguration
    \/ FallbackEquipment
    \/ TestResultSummary
    \/ TestResultsDetails
    \/ ProtocolDeviations
    \/ DefectiveUnitInvestigations
    \/ DefectiveUnits
    \/ TestMethodLosses
    \/ Conclusion
    \/ AttachmentsList
    \/ Respond

Spec == Init /\ [][Next]_vars

\* The request handler when the orchestrator call is made with the keywords
\* execute_tasks_4_1_to_4_4 declares, so that lines 479-611 run.
InitPipeline ==
    /\ SheetStart([header |-> <<>>, rows |-> <<>>], "idle")
    /\ CombinedStart(<<>>, "idle")
    /\ NumberingStart("none", <<>>, "idle")
    /\ UploadStart(NoFile, <<>>, "idle")
    /\ DocumentStart(FALSE, EmptyMap, <<>>, "idle")
    /\ ConvertStart(NoTable, "idle")
    /\ TableStart(<<>>, NotComputed, "idle")
    /\ PipelineStart(BOOLEAN, GeneratorCallKeywords \cap OrchestratorParams)
    /\ ParserStart(<<>>)
    /\ StatsStart(<<>>, "reading")
    /\ DutStart("none", <<>>, <<>>)

NextPipeline ==
    \/ Next
    \/ ExecuteTask4_5
    \/ ProcessAiResults
    \/ ChronologyAndImages
    \/ EquipmentSection
    \/ FinalAcronymsTask

SpecPipeline == InitPipeline /\ [][NextPipeline]_vars

InitParser ==
    /\ SheetStart([header |-> <<>>, rows |-> <<>>], "idle")
    /\ CombinedStart(<<>>, "idle")
    /\ NumberingStart("none", <<>>, "idle")
    /\ UploadStart(NoFile, <<>>, "idle")
    /\ DocumentStart(FALSE, EmptyMap, <<>>, "idle")
    /\ ConvertStart(NoTable, "idle")
    /\ TableStart(<<>>, NotComputed, "idle")
    /\ PipelineStart({FALSE}, GeneratorCallKeywords)
    /\ \E d \in Documents : ParserStart(d)
    /\ StatsStart(<<>>, "reading")
    /\ DutStart("none", <<>>, <<>>)

NextParser ==
    \/ ProcessElement
    \/ ReturnParsedData
    \/ FormatForAiPrompt

SpecParser == InitParser /\ [][NextParser]_vars

InitStats ==
    /\ SheetStart([header |-> <<>>, rows |-> <<>>], "idle")
    /\ CombinedStart(<<>>, "idle")
    /\ NumberingStart("none", <<>>, "idle")
    /\ UploadStart(NoFile, <<>>, "idle")
    /\ DocumentStart(FALSE, EmptyMap, <<>>, "idle")
    /\ ConvertStart(NoTable, "idle")
    /\ TableStart(<<>>, NotComputed, "idle")
    /\ PipelineStart({FALSE}, GeneratorCallKeywords)
    /\ ParserStart(<<>>)
    /\ \E header \in Headers, mode \in {"reading", "collecting"} :
          StatsStart(header, mode)
    /\ DutStart("none", <<>>, <<>>)

NextStats ==
    \/ ReadRow
    \/ AnalyzeTestResults
    \/ AddSheetRow
    \/ GetExcelStatistics

SpecStats == InitStats /\ [][NextStats]_vars

\* DeviceUnderTestAgent: task 4.5 on uploaded files, and the serial-number
\* scan on a text.  req holds the report number and what the capability
\* answers to the call of the task.
DutRequests ==
    {[NoRequest EXCEPT !.report = 1, !.fault_call = f.fault_call,
                       !.fault_kind = f.fault_kind] :
        f \in {NoFault} \cup [fault_call : {"task_4_5"}, fault_kind : FaultKinds]}

InitDut ==
    /\ SheetStart([header |-> <<>>, rows |-> <<>>], "idle")
    /\ CombinedStart(<<>>, "idle")
    /\ NumberingStart("none", <<>>, "idle")
    /\ UploadStart(NoFile, <<>>, "idle")
    /\ DocumentStart(FALSE, EmptyMap, <<>>, "idle")
    /\ ConvertStart(NoTable, "idle")
    /\ TableStart(<<>>, NotComputed, "idle")
    /\ client = TRUE
    /\ call_keywords = GeneratorCallKeywords
    /\ generated_attachments = <<>>
    /\ served = 0
    /\ pc = "idle"
    /\ req \in DutRequests
    /\ sections = EmptyMap
    /\ ai_results = NoResults
    /\ results = NoResults
    /\ order = <<>>
    /\ complete_report = NotBuilt
    /\ ParserStart(<<>>)
    /\ StatsStart(<<>>, "reading")
    /\ \/ \E files \in DataFiles : DutStart("task", files, <<>>)
       \/ \E text \in ExcelTexts : DutStart("count", <<>>, text)

NextDut ==
    \/ ExtractAndFormatExcelData
    \/ ScanLine
    \/ CountTestArticles
    \/ DeviceConfigurationSection

SpecDut == InitDut /\ [][NextDut]_vars

\* TestResultSummaryAgent._generate_attribute_table on extracted criteria
InitTable ==
    /\ SheetStart([header |-> <<>>, rows |-> <<>>], "idle")
    /\ CombinedStart(<<>>, "idle")
    /\ NumberingStart("none", <<>>, "idle")
    /\ UploadStart(NoFile, <<>>, "idle")
    /\ DocumentStart(FALSE, EmptyMap, <<>>, "idle")
    /\ ConvertStart(NoTable, "idle")
    /\ PipelineStart({FALSE}, GeneratorCallKeywords)
    /\ ParserStart(<<>>)
    /\ StatsStart(<<>>, "reading")
    /\ DutStart("none", <<>>, <<>>)
    /\ \E criteria \in CriteriaLists, stats_of_sheet \in ExcelStats :
          TableStart(criteria, stats_of_sheet, "rows")

NextTable ==
    \/ AttributeRow
    \/ ReturnAttributeTable

SpecTable == InitTable /\ [][NextTable]_vars

\* A table written by _format_word_table and read back into the document
InitConvert ==
    /\ SheetStart([header |-> <<>>, rows |-> <<>>], "idle")
    /\ CombinedStart(<<>>, "idle")
    /\ NumberingStart("none", <<>>, "idle")
    /\ UploadStart(NoFile, <<>>, "idle")
    /\ DocumentStart(FALSE, EmptyMap, <<>>, "idle")
    /\ PipelineStart({FALSE}, GeneratorCallKeywords)
    /\ ParserStart(<<>>)
    /\ StatsStart(<<>>, "reading")
    /\ DutStart("none", <<>>, <<>>)
    /\ TableStart(<<>>, NotComputed, "idle")
    /\ \E table \in MarkdownTables : ConvertStart(table, "format")

NextConvert ==
    \/ FormatWordTable
    \/ FindTableLines
    \/ ParseDataLine
    \/ CreateWordTable

SpecConvert == InitConvert /\ [][NextConvert]_vars

\* create_word_document_from_template on the sections of a request
InitDocument ==
    /\ SheetStart([header |-> <<>>, rows |-> <<>>], "idle")
    /\ CombinedStart(<<>>, "idle")
    /\ NumberingStart("none", <<>>, "idle")
    /\ UploadStart(NoFile, <<>>, "idle")
    /\ PipelineStart({FALSE}, GeneratorCallKeywords)
    /\ ParserStart(<<>>)
    /\ StatsStart(<<>>, "reading")
    /\ DutStart("none", <<>>, <<>>)
    /\ TableStart(<<>>, NotComputed, "idle")
    /\ ConvertStart(NoTable, "idle")
    /\ \E exists \in BOOLEAN, doc_map \in SectionMaps, body \in Templates :
          DocumentStart(exists, doc_map, body, "start")

NextDocument ==
    \/ LoadTemplate
    \/ ReplaceInParagraph
    \/ BodyDone
    \/ AppendMissingContent
    \/ SaveDocument

SpecDocument == InitDocument /\ [][NextDocument]_vars

\* process_files on an uploaded protocol and uploaded data files
InitUpload ==
    /\ SheetStart([header |-> <<>>, rows |-> <<>>], "idle")
    /\ CombinedStart(<<>>, "idle")
    /\ NumberingStart("none", <<>>, "idle")
    /\ PipelineStart({FALSE}, GeneratorCallKeywords)
    /\ ParserStart(<<>>)
    /\ StatsStart(<<>>, "reading")
    /\ DutStart("none", <<>>, <<>>)
    /\ TableStart(<<>>, NotComputed, "idle")
    /\ ConvertStart(NoTable, "idle")
    /\ DocumentStart(FALSE, EmptyMap, <<>>, "idle")
    /\ \E protocol \in ProtocolFiles, files \in UploadedDataFiles :
          UploadStart(protocol, files, "protocol")

NextUpload ==
    \/ ProcessProtocol
    \/ ProcessDataFile
    \/ ReturnResults

SpecUpload == InitUpload /\ [][NextUpload]_vars

\* The post-processing of a generated narrative
InitNumbering ==
    /\ SheetStart([header |-> <<>>, rows |-> <<>>], "idle")
    /\ CombinedStart(<<>>, "idle")
    /\ PipelineStart({FALSE}, GeneratorCallKeywords)
    /\ ParserStart(<<>>)
    /\ StatsStart(<<>>, "reading")
    /\ DutStart("none", <<>>, <<>>)
    /\ TableStart(<<>>, NotComputed, "idle")
    /\ ConvertStart(NoTable, "idle")
    /\ DocumentStart(FALSE, EmptyMap, <<>>, "idle")
    /\ UploadStart(NoFile, <<>>, "idle")
    /\ \E kind \in Narratives, response \in Responses :
          NumberingStart(kind, response, "lines")

NextNumbering ==
    \/ FixDeviationLine
    \/ FixInvestigationLine
    \/ ReturnNumbered
    \/ FormatFinalContent

SpecNumbering == InitNumbering /\ [][NextNumbering]_vars

\* CombinedExcelParser.parse_all_excel_files on a list of workbooks
InitCombined ==
    /\ SheetStart([header |-> <<>>, rows |-> <<>>], "idle")
    /\ PipelineStart({FALSE}, GeneratorCallKeywords)
    /\ ParserStart(<<>>)
    /\ StatsStart(<<>>, "reading")
    /\ DutStart("none", <<>>, <<>>)
    /\ TableStart(<<>>, NotComputed, "idle")
    /\ ConvertStart(NoTable, "idle")
    /\ DocumentStart(FALSE, EmptyMap, <<>>, "idle")
    /\ UploadStart(NoFile, <<>>, "idle")
    /\ NumberingStart("none", <<>>, "idle")
    /\ \E files \in FileLists : CombinedStart(files, "files")

NextCombined ==
    \/ ParseFile
    \/ ReturnAllResults

SpecCombined == InitCombined /\ [][NextCombined]_vars

InitSheet ==
    /\ PipelineStart({FALSE}, GeneratorCallKeywords)
    /\ ParserStart(<<>>)
    /\ StatsStart(<<>>, "reading")
    /\ DutStart("none", <<>>, <<>>)
    /\ TableStart(<<>>, NotComputed, "idle")
    /\ ConvertStart(NoTable, "idle")
    /\ DocumentStart(FALSE, EmptyMap, <<>>, "idle")
    /\ UploadStart(NoFile, <<>>, "idle")
    /\ NumberingStart("none", <<>>, "idle")
    /\ CombinedStart(<<>>, "idle")
    /\ \E ws \in Worksheets : SheetStart(ws, "start")

NextSheet ==
    \/ ReadColumns
    \/ ReadDataRow
    \/ ReturnSheetDict

SpecSheet == InitSheet /\ [][NextSheet]_vars

-----------------------------------------------------------------------------
(* Properties *)

AttachmentLines == IF "attachments" \in DOMAIN sections
                   THEN sections["attachments"].lines ELSE <<>>

C1_SecondReportAfterAttachment ==
    /\ pc = "done"
    /\ req.report = 2
    /\ \E i \in 1..Len(AttachmentLines) : AttachmentLines[i].filename.report = 1

\* C2: with an AI client configured generate_report_sections returns the
\* sections map; no exception reaches its caller.
C2_NoExceptionReachesCaller == client => pc # "raised"

ContentKeys == {"task_4_1", "task_4_1_purpose", "task_4_1_scope", "task_4_2",
                "task_4_4", "task_4_5", "dut_config", "task_4_6", "equipment",
                "task_4_7", "protocol_deviations",
                "defective_unit_investigations", "defective_units",
                "test_method_losses", "conclusion"}

\* C4: task_4_3 is written strictly after purpose/scope, references,
\* procedure summary, device configuration, equipment, test-result summary,
\* deviations, defective units, test-method losses and conclusion.
C4_AcronymsWrittenAfterAllOthers ==
    \A i, j \in 1..Len(order) :
        order[i] = "task_4_3" /\ order[j] \in ContentKeys => j < i

ScopeProduced ==
    /\ "task_4_1" \in DOMAIN results
    /\ results["task_4_1"].success
    /\ Truthy(results["task_4_1"].content)

C7_NothingParsedAfterAppendices ==
    [][stop_parsing =>
          /\ stop_parsing'
          /\ parsed_data' = parsed_data
          /\ key_order' = key_order
          /\ content_counter' = content_counter]_vars

\* Scenario A has been parsed: text follows the heading, four keys are held
C7_ScenarioAParsed ==
    /\ doc = ScenarioA
    /\ parser_pc = "returned"
    /\ stop_parsing
    /\ pos <= Len(doc)
    /\ DOMAIN parsed_data = {Sec(<<1>>, <<0>>), Sec(<<1>>, <<1>>),
                             Sec(<<2>>, <<0>>), Sec(<<2>>, <<1>>)}

\* (major, minor) of a <= (major, minor) of b, as integers
NumericLeq(a, b) ==
    \/ ToInt(a[1]) < ToInt(b[1])
    \/ ToInt(a[1]) = ToInt(b[1]) /\ ToInt(a[2]) <= ToInt(b[2])

\* C8: format_for_ai_prompt renders every section once, in non-decreasing
\* (major, minor) order compared as integers.
C8_SectionsInNumericOrder ==
    parser_pc = "formatted" =>
        /\ Len(formatted) = Cardinality(DOMAIN parsed_data)
        /\ {formatted[i].section_num : i \in 1..Len(formatted)} = DOMAIN parsed_data
        /\ \A i, j \in 1..Len(formatted) :
              i < j => NumericLeq(formatted[i].section_num, formatted[j].section_num)

\* Headings met as 10.0, 1.10, 1.2 are rendered as 1.2, 1.10, 10.0
C8_ReorderedNumerically ==
    /\ parser_pc = "formatted"
    /\ key_order = <<Sec(<<1, 0>>, <<0>>), Sec(<<1>>, <<1, 0>>), Sec(<<1>>, <<2>>)>>
    /\ Len(formatted) = 3
    /\ formatted[1].section_num = Sec(<<1>>, <<2>>)
    /\ formatted[2].section_num = Sec(<<1>>, <<1, 0>>)
    /\ formatted[3].section_num = Sec(<<1, 0>>, <<0>>)

\* C9: actual_sample_size = total records - test_method_losses, in the
\* analysis of TestArticleParser (total = number of keyed records) and in
\* the statistics of TestResultSummaryAgent (total = initial_sample_size).
C9_ActualIsTotalMinusLosses ==
    /\ stats_pc = "analyzed" /\ "actual_sample_size" \in DOMAIN analysis =>
          analysis.actual_sample_size =
              Cardinality(DOMAIN records) - analysis.test_method_losses
    /\ stats_pc = "computed" =>
          stats.actual_sample_size =
              stats.initial_sample_size - stats.test_method_losses

\* A worksheet with two keyed records, one of them lost to the test method
C9_AnalyzedWithLoss ==
    /\ stats_pc = "analyzed"
    /\ "actual_sample_size" \in DOMAIN analysis
    /\ Cardinality(DOMAIN records) = 2
    /\ analysis.test_method_losses = 1
    /\ analysis.actual_sample_size = 1

\* C10: the actual_sample_size reported by TestArticleParser is never a
\* negative number (the analysis has no field that could mark one).
C10_ActualSampleSizeNotNegative ==
    "actual_sample_size" \in DOMAIN analysis => analysis.actual_sample_size >= 0

\* The distinct strings the claim accepts as serial numbers: the stripped
\* second column, all digits, at least eight long, of the rows that have a
\* second column and no header keyword; with_banners tells whether lines
\* that start with "===" are rows too.
ClaimedSerials(text, with_banners) ==
    {Strip(text[i].cells[2]) :
        i \in {j \in 1..Len(text) :
                  /\ Len(text[j].cells) >= 2
                  /\ with_banners \/ ~text[j].banner
                  /\ ~has_header_keyword(text[j])
                  /\ LET c == Strip(text[j].cells[2])
                     IN  Len(c) >= 8 /\ \A k \in 1..Len(c) : c[k] \in DigitChars}}

Counted == dut_pc \in {"counted", "generate", "returned"}

\* C11 as stated: the count returned by _count_test_articles_in_content is
\* at least 1 and equals the number of distinct accepted serial numbers.
C11_CountIsNumberOfSerials ==
    Counted =>
        /\ test_article_count >= 1
        /\ test_article_count = Cardinality(ClaimedSerials(excel_data, TRUE))

\* C11 amended: the count is the number n of distinct accepted serial numbers
\* on the lines that do not start with "===" when n >= 1, and 1 when n = 0.
C11_CountIsSerialsOrOne ==
    Counted =>
        LET n == Cardinality(ClaimedSerials(excel_data, FALSE))
        IN  test_article_count = IF n = 0 THEN 1 ELSE n

\* A text of two rows with two different serial numbers has been counted
C11_TwoSerialsCounted ==
    /\ dut_call = "count"
    /\ dut_pc = "counted"
    /\ Len(excel_data) = 2
    /\ unique_serial_numbers = {SerialNumber(1), SerialNumber(2)}
    /\ test_article_count = 2

\* C13: with a workbook uploaded and the capability call succeeding, the
\* result carries the raw-data attachment of the report iff the DUT count is
\* greater than 10; at 10 or fewer the presentation is the detailed table.
C13_AttachmentIffMoreThanTen ==
    (/\ dut_pc = "returned"
     /\ dut_result.success
     /\ data_files # <<>>
     /\ data_files[1].content = "workbook")
    => /\ dut_result.attachment = RawDataAttachment(req.report)
            <=> test_article_count > 10
       /\ test_article_count <= 10 =>
            /\ dut_result.attachment = NoAttachment
            /\ dut_result.presentation_type = "detailed_table"

\* C12: when one of the equipment, software or material logs has more than
\* 5 items the equipment task returns the raw-data attachment of the report
\* and the generator records it; with 5 or fewer in each there is none.
C12_EquipmentAttachmentAboveFive ==
    "task_4_6" \in DOMAIN results =>
        IF needs_attachment
        THEN /\ results["task_4_6"].attachment = RawDataAttachment(req.report)
             /\ \E i \in 1..Len(generated_attachments) :
                    generated_attachments[i] = RawDataAttachment(req.report)
        ELSE results["task_4_6"].attachment = NoAttachment

IsPercentOf(h, num, den) ==
    LET d == 10000 * num - h * den
    IN  2 * (IF d < 0 THEN -d ELSE d) <= den

StatesBothNumbers(c) ==
    /\ Len(c) >= 2
    /\ c[1] \in {"90%", "90", "95%", "95", "99%", "99"}
    /\ c[2] \in {"90%", "90", "95%", "95", "99%", "99"}

ReliabilityStated(c) ==
    CASE c[2] \in {"90%", "90"} -> 90
      [] c[2] \in {"95%", "95"} -> 95
      [] OTHER -> 99

C16_TableRoundTrip ==
    convert_pc \in {"returned", "none"} =>
        /\ convert_pc = "returned"
        /\ Len(word_table) = Len(markdown_table.rows) + 1
        /\ \A i \in 1..Len(word_table) :
              LET written == IF i = 1 THEN markdown_table.header_texts
                             ELSE markdown_table.rows[i - 1]
              IN  /\ Len(word_table[i]) = Len(markdown_table.header_texts)
                  /\ \A j \in 1..Len(word_table[i]) :
                        word_table[i][j] = Strip(written[j])

\* The placeholder occurs in no paragraph of the template body
InNoParagraph(placeholder) ==
    \A i \in 1..Len(doc_paragraphs) :
        doc_paragraphs[i].role = "template" => doc_paragraphs[i].placeholder # placeholder

\* After the template's paragraphs the document has a note naming the
\* placeholder, followed by the content of the section
NoteWithContent(entry) ==
    \E i \in 1..(Len(doc_paragraphs) - 1) :
        /\ doc_paragraphs[i].role = "note"
        /\ doc_paragraphs[i].placeholder = entry.placeholder
        /\ doc_paragraphs[i + 1].role = "content"
        /\ doc_paragraphs[i + 1].text.of = entry.content_key

\* C17: in the saved document, every placeholder of the mapping that occurs
\* in no body paragraph and whose section was generated has, at the end, a
\* note naming it followed by its content (conclusion and attachments too).
C17_MissingPlaceholderContentAppended ==
    doc_pc = "saved" =>
        \A n \in DOMAIN placeholder_mapping :
            LET entry == placeholder_mapping[n]
            IN  /\ InNoParagraph(entry.placeholder)
                /\ Truthy(Get(doc_sections, entry.content_key, Empty))
                => NoteWithContent(entry)

\* C18: when process_files has returned, no temporary file written from
\* uploaded bytes is left, whatever failed on the way.
C18_TemporaryFilesDeleted ==
    upload_pc = "returned" => tmp_files = {}

\* An uploaded protocol or data file that is read cannot be read or loaded
UnreadableUpload ==
    \/ protocol_file.state \in {"corrupt", "unreadable"}
    \/ \E i \in 1..Len(uploaded_files) :
          /\ EndsWith(uploaded_files[i].filename, {".xlsx", ".xls"})
          /\ uploaded_files[i].state \in {"corrupt", "unreadable"}

\* C19: with an unreadable or corrupt protocol or data file, process_files
\* does not return processed data.
C19_UnreadableFileIsHardFailure ==
    UnreadableUpload => upload_pc # "returned"

\* The header lines of the returned narrative, in order
ReturnedHeaders == SelectSeq(processed_lines, LAMBDA line : line.form = "header")

\* C20: in the returned narrative the k-th header line carries the number k,
\* whatever numbers the response carried.
C20_HeadersNumberedFromOne ==
    numbering_pc = "returned" =>
        \A k \in 1..Len(ReturnedHeaders) : ReturnedHeaders[k].number = k

\* The upper-cased values of result cells that contain "TML" or
\* "TEST METHOD LOSS"
HoldsLossWords == {"TML", "TML - FIXTURE SLIP"}

\* C21: every non-empty result value that contains "TML" or "TEST METHOD
\* LOSS" counts as a test-method loss, one equal to "FAIL" as defective, one
\* equal to "PASS" as pass, and the three counts are the sizes of the classes.
C21_ResultValuesClassified ==
    stats_pc = "analyzed" /\ "pass_count" \in DOMAIN analysis =>
        /\ analysis.test_method_losses =
              Cardinality(ResultsWhere(records, test_result_columns, HoldsLossWords))
        /\ analysis.fail_count =
              Cardinality(ResultsWhere(records, test_result_columns, {"FAIL"}))
        /\ analysis.pass_count =
              Cardinality(ResultsWhere(records, test_result_columns, {"PASS"}))

\* The files of the list that went through the parsers
FilesDone == SubSeq(excel_files, 1, excel_pos - 1)

\* C22: a corrupt workbook adds an entry to parsing_summary.errors, and the
\* files after it are still processed.
C22_CorruptWorkbookIsListedAsError ==
    /\ Len(all_results.errors) =
          Cardinality({i \in 1..Len(FilesDone) : FilesDone[i].state = "corrupt"})
    /\ all_results.files_processed + Len(all_results.errors) = Len(FilesDone)

\* C24: a sheet whose key column is headed "Serial Number" or "DUT Serial
\* Number" and that has a row with a key yields a non-empty map of records,
\* the last row of each key being its record.
C24_SerialNumberColumnIsPrimaryKey ==
    \A i \in 1..Len(FilesDone) :
        LET sheet == FilesDone[i].sheet
        IN  /\ i = Len(FilesDone)
            /\ FilesDone[i].state = "ok"
            /\ sheet.name \in TargetSheetNames
            /\ sheet.columns[1] \in {DutSerialNumber, <<"Serial", "Number">>}
            /\ \E r \in 1..Len(sheet.rows) : sheet.rows[r][1] # ""
            => /\ last_returned.found
               /\ last_returned.records # EmptyMap
               /\ \A r \in 1..Len(sheet.rows) :
                     /\ sheet.rows[r][1] # ""
                     /\ \A q \in (r + 1)..Len(sheet.rows) :
                           sheet.rows[q][1] # sheet.rows[r][1]
                     => /\ sheet.rows[r][1] \in DOMAIN last_returned.records
                        /\ \A c \in 1..Len(sheet.columns) :
                              last_returned.records[sheet.rows[r][1]][sheet.columns[c]]
                                 = sheet.rows[r][c]

\* C29: after parse_excel_file returned an empty extraction for a file, the
\* parsed_data of the parser is empty and get_dut_count() is 0.
C29_EmptyExtractionClearsParsedData ==
    excel_pos > 1 /\ ~last_returned.found =>
        /\ ~parsed_data_of_parser.found
        /\ get_dut_count(parsed_data_of_parser) = 0


\* What the records of a sheet are to be: a row with a cell that holds a
\* value, each value as str() gives it, nothing for a cell without value.
stringified(cell_value) ==
    IF cell_value.type = "none" THEN <<>> ELSE Strip(cell_value.text)

RecordsOfSheet ==
    LET columns == [col \in 1..Len(worksheet.header) |->
                       IF worksheet.header[col].type = "none"
                       THEN <<"Column" \o ToString(col)>>
                       ELSE Strip(worksheet.header[col].text)]
        kept == SelectSeq(worksheet.rows,
                          LAMBDA row : \E col \in 1..Len(row) : stringified(row[col]) # <<>>)
    IN  [k \in 1..Len(kept) |->
            [c \in Range(columns) |->
                stringified(kept[k][CHOOSE i \in 1..Len(columns) :
                                       columns[i] = c
                                       /\ \A j \in (i + 1)..Len(columns) : columns[j] # c])]]

\* C25: the records returned for a sheet are those of its rows with at least
\* one non-empty cell, every cell value stringified under its column header
\* (Column<N> for a missing header) and an empty cell as the empty string,
\* the values 0 and False included.
C25_RowsBecomeStringifiedRecords ==
    sheet_pc = "returned" => sheet_data = RecordsOfSheet


\* The element at pos is a heading: _process_paragraph opens a section for it
IsHeading(element) ==
    /\ element.tag = "p"
    /\ element.len > 0
    /\ ~should_stop_parsing(element)
    /\ extract_section_number(element) # NoSection

\* What an element adds to a section: its text, or its table
ArrivedContent(element) ==
    IF element.tag = "p" THEN element ELSE [type |-> "table", data |-> element]

\* The content items a section value holds, in the order of their keys
ItemsOf(section, counter) ==
    IF section.type = "str" THEN <<section.text>>
    ELSE [i \in 1..counter |-> section.items[i]]

C28_SectionContentOnlyGrows ==
    [][parser_pc = "loop" =>
          \A s \in DOMAIN parsed_data :
              /\ s \in DOMAIN parsed_data'
              /\ \A i \in 1..Len(ItemsOf(parsed_data[s], content_counter[s])) :
                    /\ i <= Len(ItemsOf(parsed_data'[s], content_counter'[s]))
                    /\ ItemsOf(parsed_data'[s], content_counter'[s])[i] =
                          ItemsOf(parsed_data[s], content_counter[s])[i]]_vars


\* C26: the section on test method losses reads "No test method loss
\* occurred in the execution of this test." only when the uploaded data hold
\* no investigation of a test method loss, whatever the capability returns.
C26_NoLossOnlyWithoutInvestigations ==
    /\ "test_method_losses" \in DOMAIN sections
    /\ sections["test_method_losses"] = NoLossesContent
    => req.tml = "none"


C30_StatisticsBoundConfidence ==
    stats_pc = "computed" =>
        /\ stats.initial_sample_size >= 0
        /\ stats.test_method_losses + stats.defective_units <= stats.initial_sample_size
        /\ 0 <= stats.defective_units
        /\ stats.defective_units <= stats.actual_sample_size
        /\ \A c \in ConfidenceTexts :
              \/ actual_conf_rel(c, stats) = TBD
              \/ /\ stats.actual_sample_size > 0
                 /\ 0 <= actual_conf_rel(c, stats).actual
                 /\ actual_conf_rel(c, stats).actual <= 10000

\* A sheet with one lost and one failed unit: the one unit of the actual
\* sample failed, the actual confidence is 0.00%
C30_OneLostOneFailed ==
    /\ stats_pc = "computed"
    /\ test_article_data = <<"header", "TML", "FAIL">>
    /\ stats = [initial_sample_size |-> 2, test_method_losses |-> 1,
                actual_sample_size |-> 1, defective_units |-> 1]
    /\ actual_conf_rel(<<"90%", "90%">>, stats) =
          [tbd |-> FALSE, actual |-> 0, target |-> 9000]

====
